---- MODULE Spec2Model ----
(***************************************************************************)
(* Sales-call analytics: the recommendation endpoint of app/main.py         *)
(* (cosine_similarity, get_call_recommendations, generate_coaching_nudges)  *)
(* over the call_records table of app/models.py, and the insights of        *)
(* app/ai_insights.py (transcript parser, talk ratio, sentiment, embedding).*)
(*                                                                          *)
(* Python values are tagged records, so that None, a list, a float and a    *)
(* string stay distinct values and Python's truthiness can be computed.     *)
(* Stored sentiment scores and talk ratios are floats held in tenths: the   *)
(* integer v stands for the float v/10, so -10..10 is [-1,1] and 0..10 is   *)
(* [0,1]. The floats that app/ai_insights.py computes are held exactly, as  *)
(* fractions num/den in lowest terms.                                       *)
(***************************************************************************)
EXTENDS Integers, Sequences, FiniteSets, TLC

VARIABLES
    calls,      \* the call_records table, in the order the store returns rows
    response,   \* the reply to the most recent request, NoResponse before any
    trace,      \* what the most recent request did: queries run, vectors scored
    args,       \* the arguments of a function applied on its own
    result,     \* what that function returned, NotCalled before the call
    processor,  \* the AIInsightsProcessor object, NoProcessor before it is built
    hash_seed,  \* the seed of str hashing that the Python process started with
    tasks       \* the coroutines in flight: the locals of each and where it is

\* The state the service and the functions of app/main.py leave alone
insights == <<processor, hash_seed>>

vars == <<calls, response, trace, args, result, processor, hash_seed, tasks>>

----------------------------------------------------------------------------
(* Python values *)

None == [py |-> "None"]
PyFloat(v) == [py |-> "float", val |-> v]
PyList(s) == [py |-> "list", items |-> s]
PyStr(s) == [py |-> "str", chars |-> s]
Raised(e) == [py |-> "raise", exc |-> e]

\* bool(v): None, 0.0, [] and "" are false, everything else is true.
truthy(v) ==
    CASE v.py = "None" -> FALSE
      [] v.py = "float" -> v.val # 0
      [] v.py = "list" -> Len(v.items) > 0
      [] v.py = "str" -> Len(v.chars) > 0
      [] OTHER -> TRUE

Min(a, b) == IF a <= b THEN a ELSE b

\* s[:n]
Take(s, n) == SubSeq(s, 1, Min(n, Len(s)))

Range(s) == {s[i] : i \in 1..Len(s)}

----------------------------------------------------------------------------
(* generate_coaching_nudges, app/main.py *)

EmpathyNudge == "Practice empathy - acknowledge customer frustration before offering solutions."
PositiveNudge == "Great positive interaction! Maintain this energy in future calls."
ActiveListeningNudge == "Try active listening - let customers express concerns fully before responding."
ProactiveNudge == "Take initiative - guide the conversation with proactive questions and solutions."

default_nudges ==
    << "Summarize key points to ensure customer understanding and agreement.",
       "Use positive language and avoid negative words like 'can't' or 'won't'.",
       "Ask open-ended questions to better understand customer needs.",
       "Confirm next steps and set clear expectations before ending calls.",
       "Practice patience - some customers need more time to process information." >>

\* The thresholds of the rules, in tenths: 0.5, 0.7 and 0.3.
SentimentHigh == 5
TalkHigh == 7
TalkLow == 3
\* nudges[:3] and 3 - len(nudges)
NudgeCount == 3

\* The mutant of SentimentNudges: the reinforcement rule fires from 0.5 on.
SentimentNudgesInclusive(score) ==
    IF truthy(score) /\ score.val < 0 THEN <<EmpathyNudge>>
    ELSE IF truthy(score) /\ score.val >= SentimentHigh THEN <<PositiveNudge>>
    ELSE <<>>

\* "Analyze sentiment patterns": the if/elif on customer_sentiment_score.
SentimentNudges(score) ==
    IF truthy(score) /\ score.val < 0 THEN <<EmpathyNudge>>
    ELSE IF truthy(score) /\ score.val > SentimentHigh THEN <<PositiveNudge>>
    ELSE <<>>

\* "Analyze talk ratio": the if/elif on agent_talk_ratio.
TalkRatioNudges(ratio) ==
    IF truthy(ratio) /\ ratio.val > TalkHigh THEN <<ActiveListeningNudge>>
    ELSE IF truthy(ratio) /\ ratio.val < TalkLow THEN <<ProactiveNudge>>
    ELSE <<>>

\* nudges, as it stands when the defaults are reached.
RuleNudges(target_call) ==
    SentimentNudges(target_call.customer_sentiment_score)
        \o TalkRatioNudges(target_call.agent_talk_ratio)

\* The mutant of DrawCount: one default too few.
DrawCountShort(target_call) ==
    IF Len(RuleNudges(target_call)) < NudgeCount
    THEN Min(NudgeCount - 1 - Len(RuleNudges(target_call)), Len(default_nudges))
    ELSE 0

\* min(remaining, len(default_nudges)), and nothing drawn when 3 are there.
DrawCount(target_call) ==
    IF Len(RuleNudges(target_call)) < NudgeCount
    THEN Min(NudgeCount - Len(RuleNudges(target_call)), Len(default_nudges))
    ELSE 0

\* The mutant of random_sample: k draws with replacement.
random_sample_replacing(population, k) ==
    { [i \in 1..k |-> population[p[i]]] : p \in [1..k -> 1..Len(population)] }

\* random.sample(population, k): any k elements at distinct positions, in any
\* order.
random_sample(population, k) ==
    { [i \in 1..k |-> population[p[i]]] :
        p \in { q \in [1..k -> 1..Len(population)] :
                  \A i, j \in 1..k : i # j => q[i] # q[j] } }

\* The mutant of generate_coaching_nudges: the defaults go in front.
generate_coaching_nudges_defaults_first(target_call, similar_calls, drawn) ==
    Take(drawn \o RuleNudges(target_call), NudgeCount)

\* drawn is what random.sample returned (<<>> when it is not called).
generate_coaching_nudges(target_call, similar_calls, drawn) ==
    Take(RuleNudges(target_call) \o drawn, NudgeCount)

----------------------------------------------------------------------------
(* cosine_similarity, app/main.py *)

RECURSIVE Sum(_)
\* sum(...) over a sequence of numbers
Sum(s) == IF s = <<>> THEN 0 ELSE s[1] + Sum(Tail(s))

\* [f(x, y) for x, y in zip(a, b)]: zip stops at the shorter sequence.
ZipProducts(a, b) == [i \in 1..Min(Len(a), Len(b)) |-> a[i] * b[i]]

Abs(n) == IF n < 0 THEN -n ELSE n

RECURSIVE Gcd(_, _)
Gcd(m, n) == IF n = 0 THEN m ELSE Gcd(n, m % n)

\* The float dot / sqrt(sq), for an integer dot and an integer sq > 0. It is
\* held exactly, as the signed square dot*|dot| / sq in lowest terms: the map
\* x -> x*|x| is strictly increasing, so two such floats are equal iff their
\* records are equal, and ordered as SimLess orders them.
Quotient(dot, sq) ==
    LET g == Gcd(dot * dot, sq)
    IN [py |-> "float", num |-> (dot * Abs(dot)) \div g, den |-> sq \div g]

\* The float 0.0 that cosine_similarity returns early.
ZeroSimilarity == [py |-> "float", num |-> 0, den |-> 1]
\* x < y for two such floats
SimLess(x, y) == x.num * y.den < y.num * x.den

\* cosine_similarity(v, v) for a nonzero v: the float 1.0
OneSimilarity == [py |-> "float", num |-> 1, den |-> 1]

\* The mutant of Divide: the square roots are missing, dot / (sq_a * sq_b).
DivideBySquares(dot_product, sq_a, sq_b) ==
    IF sq_a * sq_b = 0 THEN Raised("ZeroDivisionError")
    ELSE Quotient(dot_product, (sq_a * sq_b) * (sq_a * sq_b))

\* dot_product / (magnitude_a * magnitude_b): dividing by 0.0 raises.
Divide(dot_product, sq_a, sq_b) ==
    IF sq_a * sq_b = 0 THEN Raised("ZeroDivisionError")
    ELSE Quotient(dot_product, sq_a * sq_b)

\* The mutant of cosine_similarity: the zero-magnitude check is missing.
cosine_similarity_unguarded(a, b) ==
    IF ~truthy(a) \/ ~truthy(b) \/ Len(a.items) # Len(b.items)
    THEN ZeroSimilarity
    ELSE Divide(Sum(ZipProducts(a.items, b.items)),
                Sum(ZipProducts(a.items, a.items)),
                Sum(ZipProducts(b.items, b.items)))

\* The mutant of cosine_similarity: the length check is missing, and zip
\* pairs the components up to the shorter vector.
cosine_similarity_truncating(a, b) ==
    IF ~truthy(a) \/ ~truthy(b)
    THEN ZeroSimilarity
    ELSE LET dot_product == Sum(ZipProducts(a.items, b.items))
             sq_a == Sum(ZipProducts(a.items, a.items))
             sq_b == Sum(ZipProducts(b.items, b.items))
         IN IF sq_a = 0 \/ sq_b = 0
            THEN ZeroSimilarity
            ELSE Divide(dot_product, sq_a, sq_b)

\* sq_a and sq_b are the squares of magnitude_a and magnitude_b: a magnitude is
\* 0 exactly when its square is.
cosine_similarity(a, b) ==
    IF ~truthy(a) \/ ~truthy(b) \/ Len(a.items) # Len(b.items)
    THEN ZeroSimilarity
    ELSE LET dot_product == Sum(ZipProducts(a.items, b.items))
             sq_a == Sum(ZipProducts(a.items, a.items))
             sq_b == Sum(ZipProducts(b.items, b.items))
         IN IF sq_a = 0 \/ sq_b = 0
            THEN ZeroSimilarity
            ELSE Divide(dot_product, sq_a, sq_b)

----------------------------------------------------------------------------
(* CallRecord.embedding over the embedding_json column, app/models.py *)

\* A JSON text is the sequence of its tokens: "[", "]", ",", a number literal,
\* or a word that is no JSON at all.
LBracket == [tok |-> "["]
RBracket == [tok |-> "]"]
Comma == [tok |-> ","]
Number(n) == [tok |-> "number", val |-> n]
Word(w) == [tok |-> "word", val |-> w]

RECURSIVE JoinNumbers(_)
\* "x, y, z"
JoinNumbers(items) ==
    IF items = <<>> THEN <<>>
    ELSE IF Len(items) = 1 THEN <<Number(items[1])>>
    ELSE <<Number(items[1]), Comma>> \o JoinNumbers(Tail(items))

\* json.dumps of a list of numbers
json_dumps(value) == PyStr(<<LBracket>> \o JoinNumbers(value.items) \o <<RBracket>>)

\* A text is an array of numbers when it is bracketed and, between the
\* brackets, numbers and commas alternate, starting and ending with a number.
IsNumberArray(chars) ==
    /\ Len(chars) >= 2
    /\ chars[1] = LBracket
    /\ chars[Len(chars)] = RBracket
    /\ LET inner == SubSeq(chars, 2, Len(chars) - 1)
       IN \/ inner = <<>>
          \/ /\ Len(inner) % 2 = 1
             /\ \A i \in 1..Len(inner) :
                    inner[i].tok = (IF i % 2 = 1 THEN "number" ELSE ",")

\* The text of a JSON object is one token that carries its "type" and "data"
\* members, each a value or Missing.
Object(type, data) == [tok |-> "object", type |-> type, data |-> data]

\* json.loads of a text: the list or the dict it denotes, or JSONDecodeError.
\* The texts of the model are arrays of numbers, objects, or no JSON at all.
json_loads(text) ==
    IF Len(text.chars) = 1 /\ text.chars[1].tok = "object"
    THEN [py |-> "dict", type |-> text.chars[1].type, data |-> text.chars[1].data]
    ELSE IF IsNumberArray(text.chars)
    THEN LET inner == SubSeq(text.chars, 2, Len(text.chars) - 1)
         IN PyList([i \in 1..((Len(inner) + 1) \div 2) |-> inner[2 * i - 1].val])
    ELSE Raised("JSONDecodeError")

\* The mutant of embedding: a text that does not parse reads as [0].
embedding_unparsed_as_zero(call) ==
    IF truthy(call.embedding_json)
    THEN LET loaded == json_loads(call.embedding_json)
         IN IF loaded.py = "raise" THEN PyList(<<0>>) ELSE loaded
    ELSE None

\* The embedding property: None for no text, "" and a text that does not parse.
embedding(call) ==
    IF truthy(call.embedding_json)
    THEN LET loaded == json_loads(call.embedding_json)
         IN IF loaded.py = "raise" THEN None ELSE loaded
    ELSE None

\* The mutant of set_embedding: `if value:` in place of `if value is not None:`.
set_embedding_if_truthy(call, value) ==
    IF truthy(value)
    THEN [call EXCEPT !.embedding_json = json_dumps(value)]
    ELSE [call EXCEPT !.embedding_json = None]

\* The embedding setter
set_embedding(call, value) ==
    IF value # None
    THEN [call EXCEPT !.embedding_json = json_dumps(value)]
    ELSE [call EXCEPT !.embedding_json = None]

----------------------------------------------------------------------------
(* get_call_recommendations, app/main.py *)

\* similarities[:5]
TopK == 5

\* The mutant of InsertDescending: the list is kept ascending (reverse=True
\* forgotten).
InsertAscending(sorted, x) ==
    LET k == Cardinality({i \in 1..Len(sorted) : ~SimLess(x.similarity, sorted[i].similarity)})
    IN SubSeq(sorted, 1, k) \o <<x>> \o SubSeq(sorted, k + 1, Len(sorted))

\* The mutant of InsertDescending: x goes in front of the entries equal to it.
InsertDescendingBeforeEqual(sorted, x) ==
    LET k == Cardinality({i \in 1..Len(sorted) : SimLess(x.similarity, sorted[i].similarity)})
    IN SubSeq(sorted, 1, k) \o <<x>> \o SubSeq(sorted, k + 1, Len(sorted))

\* x enters a descending list behind every entry that is not less than it.
InsertDescending(sorted, x) ==
    LET k == Cardinality({i \in 1..Len(sorted) : ~SimLess(sorted[i].similarity, x.similarity)})
    IN SubSeq(sorted, 1, k) \o <<x>> \o SubSeq(sorted, k + 1, Len(sorted))

RECURSIVE sort_reverse(_)
\* similarities.sort(key=lambda x: x[1], reverse=True): list.sort is stable,
\* and with reverse=True equal entries keep their order too.
sort_reverse(similarities) ==
    IF similarities = <<>> THEN <<>>
    ELSE LET sorted == sort_reverse(SubSeq(similarities, 1, Len(similarities) - 1))
         IN InsertDescending(sorted, similarities[Len(similarities)])

\* select(CallRecord).where(CallRecord.call_id == call_id): the rows found
SelectCall(table, call_id) == SelectSeq(table, LAMBDA c : c.call_id = call_id)

\* The mutant of OtherCalls: the target is left among the candidates.
OtherCallsWithTarget(table, call_id) == table

\* select(CallRecord).where(CallRecord.call_id != call_id)
OtherCalls(table, call_id) == SelectSeq(table, LAMBDA c : c.call_id # call_id)

\* The mutant of ScoredCalls: every candidate is scored, with or without a vector.
ScoredCallsUnfiltered(all_calls) == all_calls

\* for call in all_calls: if call.embedding: ...
ScoredCalls(all_calls) == SelectSeq(all_calls, LAMBDA c : truthy(embedding(c)))

\* similarities, as the loop leaves it
Similarities(target_embedding, all_calls) ==
    LET scored == ScoredCalls(all_calls)
    IN [i \in 1..Len(scored) |->
           [call |-> scored[i],
            similarity |-> cosine_similarity(target_embedding, embedding(scored[i]))]]
       \o <<>>

\* CallRecommendation(...) for call, sim_score in top_similar
SimilarCalls(top_similar) ==
    [i \in 1..Len(top_similar) |->
        [call_id |-> top_similar[i].call.call_id,
         similarity_score |-> top_similar[i].similarity,
         customer_sentiment_score |-> top_similar[i].call.customer_sentiment_score]]

\* The handler up to the call of generate_coaching_nudges: the reply (whose
\* nudges are still to come when pending says so) and what the handler did.
Rank(table, call_id) ==
    LET found == SelectCall(table, call_id)
    IN IF found = <<>>
       THEN [reply |-> [status |-> 404],
             did |-> [queries |-> 1, scored |-> <<>>],
             pending |-> FALSE]
       ELSE LET target_call == found[1]
                target_embedding == embedding(target_call)
            IN IF ~truthy(target_embedding)
               THEN [reply |-> [status |-> 200, similar_calls |-> <<>>,
                                coaching_nudges |-> <<>>],
                     did |-> [queries |-> 1, scored |-> <<>>],
                     pending |-> FALSE]
               ELSE LET all_calls == OtherCalls(table, call_id)
                        similarities == Similarities(target_embedding, all_calls)
                        did == [queries |-> 2,
                                scored |-> [i \in 1..Len(similarities) |->
                                               similarities[i].call.call_id]]
                    IN IF \E i \in 1..Len(similarities) :
                              similarities[i].similarity.py = "raise"
                       THEN [reply |-> [status |-> 500], did |-> did, pending |-> FALSE]
                       ELSE [reply |-> [status |-> 200,
                                        similar_calls |->
                                            SimilarCalls(Take(sort_reverse(similarities), TopK)),
                                        coaching_nudges |-> <<>>],
                             did |-> did,
                             target_call |-> target_call,
                             pending |-> TRUE]

\* The number of defaults the request draws: none unless the nudges are reached.
DrawnBy(ranked) == IF ranked.pending THEN DrawCount(ranked.target_call) ELSE 0

\* The reply: generate_coaching_nudges(target_call, similar_calls) fills the
\* nudges in; drawn is what its random.sample returns.
Recommend(ranked, drawn) ==
    IF ranked.pending
    THEN [ranked.reply EXCEPT !.coaching_nudges =
             generate_coaching_nudges(ranked.target_call, ranked.reply.similar_calls, drawn)]
    ELSE ranked.reply

----------------------------------------------------------------------------
(* str operations used by app/ai_insights.py *)

\* A str is the sequence of its tokens: a maximal run of word characters
\* (Word), one space, one line break or one punctuation mark. Two Words are
\* never adjacent: something that is no word character separates them.
Space == [tok |-> " "]
Newline == [tok |-> "newline"]
Colon == [tok |-> ":"]
Exclamation == [tok |-> "!"]
Question == [tok |-> "?"]

PyTuple(s) == [py |-> "tuple", items |-> s]

IsWord(t) == t.tok = "word"
IsSpace(t) == t.tok \in {" ", "newline"}

\* The lower-case spelling of a word
LowerCase(w) ==
    CASE w = "Agent" -> "agent"
      [] w = "Customer" -> "customer"
      [] w = "So" -> "so"
      [] w = "Good" -> "good"
      [] w = "Hello" -> "hello"
      [] OTHER -> w

\* text.lower()
lower(text) ==
    [i \in 1..Len(text) |->
        IF IsWord(text[i]) THEN Word(LowerCase(text[i].val)) ELSE text[i]] \o <<>>

\* text.strip(): from the first to the last token that is no whitespace
strip(text) ==
    LET kept == {i \in 1..Len(text) : ~IsSpace(text[i])}
    IN IF kept = {} THEN <<>>
       ELSE SubSeq(text,
                   CHOOSE i \in kept : \A j \in kept : i <= j,
                   CHOOSE i \in kept : \A j \in kept : i >= j)

RECURSIVE split(_, _)
\* text.split(sep): the pieces between the separators, [''] for ''
split(text, sep) ==
    IF \A i \in 1..Len(text) : text[i] # sep THEN <<text>>
    ELSE LET i == CHOOSE k \in 1..Len(text) :
                      text[k] = sep /\ \A j \in 1..(k - 1) : text[j] # sep
         IN <<SubSeq(text, 1, i - 1)>> \o split(SubSeq(text, i + 1, Len(text)), sep)

\* text.startswith(prefix)
startswith(text, prefix) ==
    Len(text) >= Len(prefix) /\ SubSeq(text, 1, Len(prefix)) = prefix

\* text[len(prefix):], for a text that starts with prefix
SliceAfter(text, prefix) == SubSeq(text, Len(prefix) + 1, Len(text))

RECURSIVE join(_, _)
\* sep.join(pieces)
join(sep, pieces) ==
    IF pieces = <<>> THEN <<>>
    ELSE IF Len(pieces) = 1 THEN pieces[1]
    ELSE pieces[1] \o sep \o join(sep, Tail(pieces))

\* re.findall(r'\b\w+\b', text): the maximal runs of word characters, in order
findall_words(text) ==
    LET runs == SelectSeq(text, IsWord)
    IN [i \in 1..Len(runs) |-> runs[i].val] \o <<>>

\* text.count(mark)
count(text, mark) == Len(SelectSeq(text, LAMBDA t : t = mark))

\* n / d of two ints: the float, held exactly in lowest terms
Fraction(n, d) ==
    LET g == Gcd(Abs(n), d)
    IN [py |-> "float", num |-> n \div g, den |-> d \div g]

----------------------------------------------------------------------------
(* AIInsightsProcessor: the transcript parser and the talk ratio *)

AgentLabel == <<Word("Agent"), Colon>>
CustomerLabel == <<Word("Customer"), Colon>>

\* The mutant of LineRemainder: the label is looked for in the raw line.
LineRemainderUntrimmed(line, label) ==
    IF startswith(line, label)
    THEN <<strip(SliceAfter(line, label))>>
    ELSE <<>>

\* What a line adds to the speaker's list: the stripped rest of the stripped
\* line when it starts with the label, nothing otherwise.
LineRemainder(line, label) ==
    IF startswith(strip(line), label)
    THEN <<strip(SliceAfter(strip(line), label))>>
    ELSE <<>>

RECURSIVE SpeakerText(_, _)
\* The for loop of extract_speaker_text, for one of the two lists. A line
\* that starts with 'Agent:' does not start with 'Customer:', so the elif
\* excludes nothing that the second test would accept.
SpeakerText(lines, label) ==
    IF lines = <<>> THEN <<>>
    ELSE LineRemainder(Head(lines), label) \o SpeakerText(Tail(lines), label)

extract_speaker_text(transcript) ==
    LET lines == split(transcript.chars, Newline)
        agent_text == SpeakerText(lines, AgentLabel)
        customer_text == SpeakerText(lines, CustomerLabel)
    IN PyTuple(<<PyStr(join(<<Space>>, agent_text)),
                 PyStr(join(<<Space>>, customer_text))>>)

filler_words == {"um", "uh", "er", "ah", "like", "you know", "i mean", "well", "so"}

\* clean_text(text): the words of the lower-cased text that are no filler
clean_text(text) ==
    SelectSeq(findall_words(lower(text.chars)), LAMBDA word : word \notin filler_words)

\* agent_words / total_words if total_words > 0 else 0.5
RatioOrHalf(agent_words, total_words) ==
    IF total_words > 0 THEN Fraction(agent_words, total_words) ELSE Fraction(1, 2)

calculate_talk_ratio(transcript) ==
    LET texts == extract_speaker_text(transcript).items
        agent_words == Len(clean_text(texts[1]))
        customer_words == Len(clean_text(texts[2]))
        total_words == agent_words + customer_words
    IN RatioOrHalf(agent_words, total_words)

----------------------------------------------------------------------------
(* AIInsightsProcessor: the sentiment score *)

positive_words ==
    {"good", "great", "excellent", "thank", "thanks", "perfect", "satisfied", "happy",
     "wonderful", "amazing", "fantastic", "awesome", "love", "best", "brilliant",
     "outstanding", "superb", "pleased", "delighted", "impressed", "appreciate",
     "helpful", "resolved", "solution", "working", "fixed", "clear", "easy", "smooth",
     "efficient", "professional", "courteous", "patient", "understanding", "kind"}

negative_words ==
    {"bad", "terrible", "awful", "hate", "angry", "frustrated", "problem", "issue",
     "horrible", "disgusting", "worst", "useless", "disappointed", "annoyed",
     "furious", "outraged", "unacceptable", "pathetic", "ridiculous", "stupid",
     "broken", "failed", "error", "wrong", "confusing", "difficult", "waste",
     "rude", "unhelpful", "slow", "incompetent", "disaster", "nightmare"}

neutral_words == {"okay", "fine", "alright", "normal", "average", "standard", "regular"}

\* sum(1 for word in words if word in word_set)
CountIn(words, word_set) == Len(SelectSeq(words, LAMBDA word : word \in word_set))

\* The mutant of clamp: the score is returned as it is.
clamp_none(x) == x

\* max(-1.0, min(1.0, x))
clamp(x) ==
    IF x.num > x.den THEN Fraction(1, 1)
    ELSE IF x.num < -x.den THEN Fraction(-1, 1)
    ELSE x

\* positive_count + exclamation_count * 0.2, in tenths
positive_score(positive_count, exclamation_count) ==
    10 * positive_count + 2 * exclamation_count

\* The mutant of negative_score: a question mark weighs 0.2, as an
\* exclamation mark does.
negative_score_heavy(negative_count, question_count) ==
    10 * negative_count + 2 * question_count

\* negative_count + question_count * 0.1, in tenths
negative_score(negative_count, question_count) ==
    10 * negative_count + question_count

calculate_sentiment_fallback(text) ==
    IF strip(text.chars) = <<>> THEN Fraction(0, 1)
    ELSE LET words == findall_words(lower(text.chars))
             positive_count == CountIn(words, positive_words)
             negative_count == CountIn(words, negative_words)
             neutral_count == CountIn(words, neutral_words)
             exclamation_count == count(text.chars, Exclamation)
             question_count == count(text.chars, Question)
             positive == positive_score(positive_count, exclamation_count)
             negative == negative_score(negative_count, question_count)
             total_sentiment_indicators == positive + negative + 10 * neutral_count
         IN IF total_sentiment_indicators = 0 THEN Fraction(0, 1)
            ELSE clamp(Fraction(positive - negative, total_sentiment_indicators))

\* What a call of an injected model does: it raises, or it returns a value.
Raises == [kind |-> "raises"]
Returns(value) == [kind |-> "returns", value |-> value]

\* A dict of the classifier's output; a dict without 'score' has it Missing.
Missing == [py |-> "missing"]
PyDict(label, score) == [py |-> "dict", label |-> label, score |-> score]

\* sentiment_map: the weight of a label that the map holds
sentiment_map(label) ==
    CASE label = "LABEL_0" -> -1
      [] label = "LABEL_1" -> 0
      [] label = "LABEL_2" -> 1

InSentimentMap(label) == label \in {"LABEL_0", "LABEL_1", "LABEL_2"}

RECURSIVE WeightedScore(_, _)
\* The for loop over results[0], score in tenths: both keys are read from
\* every dict, and a label outside the map adds nothing.
WeightedScore(entries, score) ==
    IF entries = <<>> THEN PyFloat(score)
    ELSE LET entry == Head(entries)
         IN IF entry.py # "dict" THEN Raised("TypeError")
            ELSE IF entry.score = Missing THEN Raised("KeyError")
            ELSE IF entry.score.py # "float" THEN Raised("TypeError")
            ELSE IF InSentimentMap(entry.label)
            THEN WeightedScore(Tail(entries),
                               score + sentiment_map(entry.label) * entry.score.val)
            ELSE WeightedScore(Tail(entries), score)

\* The try block of calculate_sentiment_real: the score, or what was raised
TrySentiment(outcome) ==
    IF outcome.kind = "raises" THEN Raised("Exception")
    ELSE LET results == outcome.value
         IN IF results.py # "list" THEN Raised("TypeError")
            ELSE IF results.items = <<>> THEN Raised("IndexError")
            ELSE IF results.items[1].py = "dict" THEN Raised("TypeError")
            ELSE IF results.items[1].py # "list" THEN Raised("TypeError")
            ELSE WeightedScore(results.items[1].items, 0)

\* What a method call gives: the object after it, the value it returns
\* and the lines it prints.
Outcome(self, ret, stdout) == [self |-> self, ret |-> ret, stdout |-> stdout]

SentimentWarning == "Warning: Real sentiment analysis failed"
EmbeddingWarning == "Warning: Real embedding generation failed"

\* The mutant of calculate_sentiment_real: a failure of the classifier
\* switches the processor to the heuristic strategy.
calculate_sentiment_real_giving_up(self, text, outcome) ==
    IF strip(text.chars) = <<>> THEN Outcome(self, Fraction(0, 1), <<>>)
    ELSE LET score == TrySentiment(outcome)
         IN IF score.py = "raise"
            THEN Outcome([self EXCEPT !.use_real_models = FALSE],
                         calculate_sentiment_fallback(text), <<SentimentWarning>>)
            ELSE Outcome(self, clamp(Fraction(score.val, 10)), <<>>)

calculate_sentiment_real(self, text, outcome) ==
    IF strip(text.chars) = <<>> THEN Outcome(self, Fraction(0, 1), <<>>)
    ELSE LET score == TrySentiment(outcome)
         IN IF score.py = "raise"
            THEN Outcome(self, calculate_sentiment_fallback(text), <<SentimentWarning>>)
            ELSE Outcome(self, clamp(Fraction(score.val, 10)), <<>>)

calculate_sentiment(self, text, outcome) ==
    IF self.use_real_models
    THEN calculate_sentiment_real(self, text, outcome)
    ELSE Outcome(self, calculate_sentiment_fallback(text), <<>>)

----------------------------------------------------------------------------
(* AIInsightsProcessor: the embedding *)

\* dim=384
dim == 384

\* A component of an embedding: num / den times the product of the
\* logarithms ln(l.num / l.den) of logs, divided by the magnitude of the
\* whole vector when normalized.
Component(num, den) ==
    [py |-> "float", num |-> num, den |-> den, logs |-> <<>>, normalized |-> FALSE]

\* np.zeros(dim)
zeros(n) == [i \in 1..n |-> Component(0, 1)] \o <<>>

\* The words of the texts, in the order of their codes
Vocabulary ==
    <<"hello", "world", "good", "bad", "okay", "agent", "customer",
      "so", "there", "um", "you", "know", "i", "mean">>

\* hash(word + suffix) in a process started with the seed, for the strings
\* that are hashed: word, word + "_pos", word + str(len(word)). str hashes
\* are randomised per process. Seed 0 gives every string the same hash, a
\* larger seed tells more strings apart; odd seeds give negative hashes.
str_hash(word, suffix, seed) ==
    LET suffixes == <<"", "_pos", "len">>
        word_code == CHOOSE i \in 1..Len(Vocabulary) : Vocabulary[i] = word
        suffix_code == CHOOSE i \in 1..Len(suffixes) : suffixes[i] = suffix
        code == 3 * word_code + suffix_code
        value == 1000 * (code % (seed + 1)) + seed
    IN IF seed % 2 = 1 THEN -value ELSE value

\* embedding[index] += weight, weight in units of 1 / den
AddAt(vector, index, weight, den) ==
    [vector EXCEPT ![index + 1] = [@ EXCEPT !.num = @ + weight, !.den = den]]

RECURSIVE AddWords(_, _, _, _, _)
\* The first loop, from the i-th word on: position_weight is
\* 1.0 - (i / len(words)) * 0.1 for the 0-based i, and the three indices get
\* it times 1, 0.5 and 0.3. All in units of 1 / (100 * len(words)).
AddWords(vector, words, i, size, seed) ==
    IF i > Len(words) THEN vector
    ELSE LET word == words[i]
             hash1 == str_hash(word, "", seed) % size
             hash2 == str_hash(word, "_pos", seed) % size
             hash3 == str_hash(word, "len", seed) % size
             position_weight == 10 * Len(words) - (i - 1)
             den == 100 * Len(words)
             first == AddAt(vector, hash1, 10 * position_weight, den)
             second == AddAt(first, hash2, 5 * position_weight, den)
             third == AddAt(second, hash3, 3 * position_weight, den)
         IN AddWords(third, words, i + 1, size, seed)

RECURSIVE Distinct(_)
\* word_freq.items(): the distinct words, in the order of their first use
Distinct(words) ==
    IF words = <<>> THEN <<>>
    ELSE <<Head(words)>> \o Distinct(SelectSeq(Tail(words), LAMBDA w : w # Head(words)))

\* The mutant of log_factor: np.log(len(words) / freq), without the 1 +.
log_factor_plain(n, freq) == [num |-> n, den |-> freq]

\* The mutant of log_factor: the quotient is inverted, np.log(freq / (freq +
\* len(words))), which is below 0.
log_factor_inverted(n, freq) == [num |-> freq, den |-> freq + n]

\* np.log(1 + len(words) / freq): the logarithm of (freq + len(words)) / freq
log_factor(n, freq) == [num |-> freq + n, den |-> freq]

\* x *= factor: 0.0 when x is 0.0 or the factor is ln(1)
Times(x, factor) ==
    IF x.num = 0 \/ factor.num = factor.den THEN Component(0, 1)
    ELSE [x EXCEPT !.logs = Append(@, factor)]

RECURSIVE ScaleWords(_, _, _, _, _)
\* The second loop: the component at hash(word) % dim is multiplied by the
\* logarithm for the word's frequency.
ScaleWords(vector, distinct, words, size, seed) ==
    IF distinct = <<>> THEN vector
    ELSE LET word == Head(distinct)
             freq == Len(SelectSeq(words, LAMBDA w : w = word))
             hash_idx == str_hash(word, "", seed) % size
             scaled == [vector EXCEPT ![hash_idx + 1] =
                            Times(@, log_factor(Len(words), freq))]
         IN ScaleWords(scaled, Tail(distinct), words, size, seed)

\* np.linalg.norm(embedding) > 0
HasMagnitude(vector) == \E i \in 1..Len(vector) : vector[i].num # 0

\* embedding / magnitude when the magnitude is above 0
Normalize(vector) ==
    IF HasMagnitude(vector)
    THEN [i \in 1..Len(vector) |->
             IF vector[i].num # 0 THEN [vector[i] EXCEPT !.normalized = TRUE]
             ELSE vector[i]] \o <<>>
    ELSE vector

generate_embedding_fallback(text, size, seed) ==
    LET words == findall_words(lower(text.chars))
        summed == AddWords(zeros(size), words, 1, size, seed)
        scaled == ScaleWords(summed, Distinct(words), words, size, seed)
    IN PyList(Normalize(scaled))

\* A numpy array, which has tolist()
NdArray(items) == [py |-> "ndarray", items |-> items]

\* The mutant of generate_embedding_real: a failure of the encoder gives [].
generate_embedding_real_empty(self, text, outcome, seed) ==
    IF outcome.kind = "raises" \/ outcome.value.py # "ndarray"
    THEN Outcome(self, PyList(<<>>), <<EmbeddingWarning>>)
    ELSE Outcome(self, PyList(outcome.value.items), <<>>)

\* encode(text).tolist(): a value without tolist raises AttributeError, and
\* what is raised in the try block gives the heuristic vector.
generate_embedding_real(self, text, outcome, seed) ==
    IF outcome.kind = "raises" \/ outcome.value.py # "ndarray"
    THEN Outcome(self, generate_embedding_fallback(text, dim, seed), <<EmbeddingWarning>>)
    ELSE Outcome(self, PyList(outcome.value.items), <<>>)

\* The mutant of generate_embedding: after a failure of the encoder the
\* processor switches itself to the heuristic strategy.
generate_embedding_switching(self, text, outcome, seed) ==
    IF self.use_real_models
    THEN LET embedded == generate_embedding_real(self, text, outcome, seed)
         IN IF embedded.stdout # <<>>
            THEN Outcome([self EXCEPT !.use_real_models = FALSE],
                         embedded.ret, embedded.stdout)
            ELSE embedded
    ELSE Outcome(self, generate_embedding_fallback(text, dim, seed), <<>>)

generate_embedding(self, text, outcome, seed) ==
    IF self.use_real_models
    THEN generate_embedding_real(self, text, outcome, seed)
    ELSE Outcome(self, generate_embedding_fallback(text, dim, seed), <<>>)

----------------------------------------------------------------------------
(* AIInsightsProcessor: construction and process_call_insights *)

\* The statements of the try block that can raise, in their order: the two
\* imports, SentenceTransformer(...) and pipeline(...).
LoadSteps == <<"import", "SentenceTransformer", "pipeline">>

\* The mutant of AIInsightsProcessor: use_real_models is set once the encoder
\* is loaded, before the classifier is.
AIInsightsProcessor_before_pipeline(use_real_models, raising) ==
    LET encoder_loaded == use_real_models /\ raising \notin {"import", "SentenceTransformer"}
        classifier_loaded == encoder_loaded /\ raising # "pipeline"
    IN [built |-> TRUE,
        use_real_models |-> encoder_loaded,
        embedding_model |-> encoder_loaded,
        sentiment_pipeline |-> classifier_loaded,
        loads |-> IF ~use_real_models \/ raising = "import" THEN 0
                  ELSE IF raising = "SentenceTransformer" THEN 1 ELSE 2,
        init |-> [use_real_models |-> use_real_models, raising |-> raising]]

\* AIInsightsProcessor(use_real_models): the models are loaded only when
\* asked for, the encoder before the classifier, and the step that raises
\* (raising, "none" when none does) ends the loading and leaves the heuristic
\* strategy. embedding_model and sentiment_pipeline say whether the attribute
\* is set; loads counts the model loads started, and init keeps the
\* arguments of the construction.
AIInsightsProcessor(use_real_models, raising) ==
    LET encoder_loaded == use_real_models /\ raising \notin {"import", "SentenceTransformer"}
        classifier_loaded == encoder_loaded /\ raising # "pipeline"
    IN [built |-> TRUE,
        use_real_models |-> classifier_loaded,
        embedding_model |-> encoder_loaded,
        sentiment_pipeline |-> classifier_loaded,
        loads |-> IF ~use_real_models \/ raising = "import" THEN 0
                  ELSE IF raising = "SentenceTransformer" THEN 1 ELSE 2,
        init |-> [use_real_models |-> use_real_models, raising |-> raising]]

\* The dict that process_call_insights returns
Insights(agent_talk_ratio, customer_sentiment_score, vector) ==
    [py |-> "dict",
     agent_talk_ratio |-> agent_talk_ratio,
     customer_sentiment_score |-> customer_sentiment_score,
     embedding |-> vector]

process_call_insights(self, call_record, classified, encoded, seed) ==
    LET transcript == call_record.transcript
        customer_text == extract_speaker_text(transcript).items[2]
        agent_talk_ratio == calculate_talk_ratio(transcript)
        sentiment == calculate_sentiment(self, customer_text, classified)
        embedded == generate_embedding(sentiment.self, transcript, encoded, seed)
    IN Outcome(embedded.self,
               Insights(agent_talk_ratio, sentiment.ret, embedded.ret),
               sentiment.stdout \o embedded.stdout)

----------------------------------------------------------------------------
(* States before any request or call *)

NoResponse == [status |-> 0]
NoTrace == [queries |-> 0, scored |-> <<>>]
NoArgs == [fn |-> "none"]
NotCalled == [py |-> "not called"]
NoProcessor == [built |-> FALSE]

----------------------------------------------------------------------------
(* The service: the call_records table and the recommendations endpoint *)

\* The most rows the table holds.
MaxCalls == 3

\* The vectors calls are stored with: of the target's length, shorter, empty,
\* of magnitude 0, and at every angle to <<1, 0>>.
Embeddings ==
    {PyList(<<>>), PyList(<<1>>), PyList(<<0, 0>>), PyList(<<1, 0>>),
     PyList(<<0, 1>>), PyList(<<-1, 0>>), PyList(<<1, 1>>)}

\* The texts written to the column that json.dumps did not produce.
InvalidJson == PyStr(<<Word("invalid"), Word("json")>>)
RawTexts == {None, PyStr(<<>>), InvalidJson}

\* The signals the rows of the service are stored with: -0.5 and 0.8.
StoredSentiments == {PyFloat(-5)}
StoredTalkRatios == {PyFloat(8)}

Init ==
    /\ calls = <<>>
    /\ response = NoResponse
    /\ trace = NoTrace
    /\ processor = NoProcessor
    /\ hash_seed = 0
    /\ tasks = <<>>
    /\ args = NoArgs
    /\ result = NotCalled

\* The client of the service works in turns: it stores a row, rewrites the
\* vector of the row it stored last, or sends a request and takes the reply
\* before its next turn.

\* generate_call_record and the insert of generate_sample_data: the row is
\* built without a vector, and gets one only if the vector is truthy.
GenerateCallRecord(embeddings, limit) ==
    /\ response = NoResponse
    /\ Len(calls) < limit
    /\ \E vector \in embeddings, sentiment \in StoredSentiments,
          ratio \in StoredTalkRatios :
           LET call == [call_id |-> Len(calls) + 1,
                        embedding_json |-> None,
                        customer_sentiment_score |-> sentiment,
                        agent_talk_ratio |-> ratio]
           IN calls' = Append(calls, IF truthy(vector)
                                     THEN set_embedding(call, vector)
                                     ELSE call)
    /\ UNCHANGED <<response, trace, args, result, insights, tasks>>

\* call.embedding = value, on the row stored last
SetEmbedding ==
    /\ response = NoResponse
    /\ calls # <<>>
    /\ \E value \in Embeddings \cup {None} :
           calls' = [calls EXCEPT ![Len(calls)] = set_embedding(@, value)]
    /\ UNCHANGED <<response, trace, args, result, insights, tasks>>

\* call.embedding_json = text, on the row stored last
WriteEmbeddingJson ==
    /\ response = NoResponse
    /\ calls # <<>>
    /\ \E text \in RawTexts :
           calls' = [calls EXCEPT ![Len(calls)].embedding_json = text]
    /\ UNCHANGED <<response, trace, args, result, insights, tasks>>

\* GET /api/v1/calls/{call_id}/recommendations, for a stored call_id or the
\* first one that is not stored
GetCallRecommendations ==
    /\ response = NoResponse
    /\ \E call_id \in 1..(Len(calls) + 1) :
           LET ranked == Rank(calls, call_id)
           IN /\ \E drawn \in random_sample(default_nudges, DrawnBy(ranked)) :
                     response' = Recommend(ranked, drawn) @@ [call_id |-> call_id]
              /\ trace' = ranked.did
    /\ UNCHANGED <<calls, args, result, insights, tasks>>

\* response = client.get(...): the client has the reply, and its turn ends.
TakeReply ==
    /\ response # NoResponse
    /\ response' = NoResponse
    /\ trace' = NoTrace
    /\ UNCHANGED <<calls, args, result, insights, tasks>>

Next ==
    \/ GenerateCallRecord(Embeddings, MaxCalls)
    \/ SetEmbedding
    \/ WriteEmbeddingJson
    \/ GetCallRecommendations
    \/ TakeReply

Spec == Init /\ [][Next]_vars

\* The table of the top-5 cut: up to 7 rows, with one of two vectors or none.
MaxCallsTopK == 7
TopKEmbeddings == {PyList(<<>>), PyList(<<1, 0>>), PyList(<<0, 1>>)}

NextTopK ==
    \/ GenerateCallRecord(TopKEmbeddings, MaxCallsTopK)
    \/ GetCallRecommendations
    \/ TakeReply

SpecTopK == Init /\ [][NextTopK]_vars

----------------------------------------------------------------------------
(* generate_coaching_nudges applied on its own *)

\* None, or a float of [-1,1] in tenths
SentimentScores == {None} \cup {PyFloat(v) : v \in -10..10}
\* None, or a float of [0,1] in tenths
TalkRatios == {None} \cup {PyFloat(v) : v \in 0..10}

InitNudges ==
    /\ calls = <<>>
    /\ response = NoResponse
    /\ trace = NoTrace
    /\ processor = NoProcessor
    /\ hash_seed = 0
    /\ tasks = <<>>
    /\ args \in [fn : {"generate_coaching_nudges"},
                 target_call : [customer_sentiment_score : SentimentScores,
                                agent_talk_ratio : TalkRatios]]
    /\ result = NotCalled

CallNudges ==
    /\ args.fn = "generate_coaching_nudges"
    /\ result = NotCalled
    /\ \E drawn \in random_sample(default_nudges, DrawCount(args.target_call)) :
           result' = PyList(generate_coaching_nudges(args.target_call, <<>>, drawn))
    /\ UNCHANGED <<calls, response, trace, args, insights, tasks>>

NextNudges == CallNudges

SpecNudges == InitNudges /\ [][NextNudges]_vars

----------------------------------------------------------------------------
(* cosine_similarity applied on its own *)

\* The longest vector, and the largest absolute value of a component.
MaxDim == 2
MaxAbs == 1

RECURSIVE SeqsUpTo(_, _)
\* The sequences over S of length at most n
SeqsUpTo(S, n) ==
    IF n = 0 THEN {<<>>}
    ELSE LET shorter == SeqsUpTo(S, n - 1)
         IN shorter \cup {Append(q, x) : q \in {r \in shorter : Len(r) = n - 1}, x \in S}

\* None, [] and every integer vector within the bounds
Vectors == {None} \cup {PyList(q) : q \in SeqsUpTo(-MaxAbs..MaxAbs, MaxDim)}

InitCosine ==
    /\ calls = <<>>
    /\ response = NoResponse
    /\ trace = NoTrace
    /\ processor = NoProcessor
    /\ hash_seed = 0
    /\ tasks = <<>>
    /\ args \in [fn : {"cosine_similarity"}, a : Vectors, b : Vectors]
    /\ result = NotCalled

CallCosine ==
    /\ args.fn = "cosine_similarity"
    /\ result = NotCalled
    /\ result' = cosine_similarity(args.a, args.b)
    /\ UNCHANGED <<calls, response, trace, args, insights, tasks>>

NextCosine == CallCosine

SpecCosine == InitCosine /\ [][NextCosine]_vars

----------------------------------------------------------------------------
(* extract_speaker_text, clean_text and calculate_talk_ratio applied on their own *)

\* The most lines of a transcript.
MaxLines == 2

\* What a line says after its label: nothing, plain words, a capitalised
\* filler before plain words, a filler, and the two fillers of two words.
Bodies ==
    { <<>>,
      <<Word("hello")>>,
      <<Word("So"), Space, Word("hello"), Space, Word("there")>>,
      <<Word("um")>>,
      <<Word("you"), Space, Word("know")>>,
      <<Word("i"), Space, Word("mean")>> }

\* How a line starts: with a speaker's label, with a label in another case,
\* or with no label (a continuation line).
Labels == {AgentLabel, CustomerLabel, <<Word("agent"), Colon>>, <<>>}

\* A line as it is written: padded with a space on both sides or not.
TranscriptLines == [padded : BOOLEAN, label : Labels, body : Bodies]

WriteLine(l) ==
    LET text == l.label
                \o (IF l.label # <<>> /\ l.body # <<>> THEN <<Space>> ELSE <<>>)
                \o l.body
    IN IF l.padded THEN <<Space>> \o text \o <<Space>> ELSE text

\* The transcript of the lines, one line break between two lines
WriteTranscript(lines) ==
    PyStr(join(<<Newline>>, [i \in 1..Len(lines) |-> WriteLine(lines[i])] \o <<>>))

InitTranscript ==
    /\ calls = <<>>
    /\ response = NoResponse
    /\ trace = NoTrace
    /\ processor = NoProcessor
    /\ hash_seed = 0
    /\ tasks = <<>>
    /\ \/ \E fn \in {"extract_speaker_text", "calculate_talk_ratio"},
             lines \in SeqsUpTo(TranscriptLines, MaxLines) :
             args = [fn |-> fn, lines |-> lines, transcript |-> WriteTranscript(lines)]
       \/ \E body \in Bodies :
             args = [fn |-> "clean_text", text |-> PyStr(body)]
    /\ result = NotCalled

CallExtractSpeakerText ==
    /\ args.fn = "extract_speaker_text"
    /\ result = NotCalled
    /\ result' = extract_speaker_text(args.transcript)
    /\ UNCHANGED <<calls, response, trace, args, insights, tasks>>

CallCleanText ==
    /\ args.fn = "clean_text"
    /\ result = NotCalled
    /\ result' = PyList(clean_text(args.text))
    /\ UNCHANGED <<calls, response, trace, args, insights, tasks>>

CallCalculateTalkRatio ==
    /\ args.fn = "calculate_talk_ratio"
    /\ result = NotCalled
    /\ result' = calculate_talk_ratio(args.transcript)
    /\ UNCHANGED <<calls, response, trace, args, insights, tasks>>

NextTranscript ==
    \/ CallExtractSpeakerText
    \/ CallCleanText
    \/ CallCalculateTalkRatio

SpecTranscript == InitTranscript /\ [][NextTranscript]_vars

----------------------------------------------------------------------------
(* calculate_sentiment_fallback applied on its own *)

\* The most words and marks of a text.
MaxItems == 3

\* The words and marks a text is written from: a positive word, also
\* capitalised, a negative word, a neutral word, a word of no list, '!', '?'.
TextItems ==
    {Word("good"), Word("Good"), Word("bad"), Word("okay"), Word("hello"),
     Exclamation, Question}

\* The text of the items, one space between two items
WriteText(items) ==
    PyStr(join(<<Space>>, [i \in 1..Len(items) |-> <<items[i]>>] \o <<>>))

\* A text of spaces only
BlankText == PyStr(<<Space, Space>>)

InitSentiment ==
    /\ calls = <<>>
    /\ response = NoResponse
    /\ trace = NoTrace
    /\ processor = NoProcessor
    /\ hash_seed = 0
    /\ tasks = <<>>
    /\ \/ \E items \in SeqsUpTo(TextItems, MaxItems) :
             args = [fn |-> "calculate_sentiment_fallback", items |-> items,
                     text |-> WriteText(items)]
       \/ args = [fn |-> "calculate_sentiment_fallback", items |-> <<>>,
                  text |-> BlankText]
    /\ result = NotCalled

CallCalculateSentimentFallback ==
    /\ args.fn = "calculate_sentiment_fallback"
    /\ result = NotCalled
    /\ result' = calculate_sentiment_fallback(args.text)
    /\ UNCHANGED <<calls, response, trace, args, insights, tasks>>

NextSentiment == CallCalculateSentimentFallback

SpecSentiment == InitSentiment /\ [][NextSentiment]_vars

----------------------------------------------------------------------------
(* generate_embedding_fallback applied on its own *)

\* The most words and marks of a text that is embedded, and the largest seed.
MaxWords == 2
MaxSeed == 5

\* A word, the same word capitalised, another word, and a mark that is no word
EmbeddingItems == {Word("hello"), Word("Hello"), Word("world"), Exclamation}

InitEmbedding ==
    /\ calls = <<>>
    /\ response = NoResponse
    /\ trace = NoTrace
    /\ processor = NoProcessor
    /\ hash_seed \in 0..MaxSeed
    /\ tasks = <<>>
    /\ \/ \E items \in SeqsUpTo(EmbeddingItems, MaxWords) :
             args = [fn |-> "generate_embedding_fallback", items |-> items,
                     text |-> WriteText(items)]
       \/ args = [fn |-> "generate_embedding_fallback", items |-> <<>>,
                  text |-> BlankText]
    /\ result = NotCalled

CallGenerateEmbeddingFallback ==
    /\ args.fn = "generate_embedding_fallback"
    /\ result = NotCalled
    /\ result' = generate_embedding_fallback(args.text, dim, hash_seed)
    /\ UNCHANGED <<calls, response, trace, args, insights, tasks>>

NextEmbedding == CallGenerateEmbeddingFallback

SpecEmbedding == InitEmbedding /\ [][NextEmbedding]_vars

----------------------------------------------------------------------------
(* The processor: one object, called again and again *)

\* The texts that are scored and embedded: '', blanks, a positive word, a
\* negative word with a question mark, and an exclamation mark alone.
ProcessorTexts ==
    {WriteText(<<>>), BlankText, WriteText(<<Word("Good")>>),
     WriteText(<<Word("bad"), Question>>), WriteText(<<Exclamation>>)}

\* The transcripts that are processed, as their lines
ProcessorTranscripts ==
    { <<>>,
      <<[padded |-> FALSE, label |-> AgentLabel, body |-> <<Word("hello")>>],
        [padded |-> FALSE, label |-> CustomerLabel, body |-> <<Word("bad")>>]>>,
      <<[padded |-> TRUE, label |-> CustomerLabel, body |-> <<Word("good")>>]>> }

\* The most dicts in the output of the classifier.
MaxEntries == 2

\* What the classifier does: it raises, returns None, returns the flat list
\* of one dict, or returns the list of one list of dicts. The dicts have a
\* label of sentiment_map with a confidence of 0.6 or 1.0, a label outside
\* the map, or no score.
ClassifierOutcomes ==
    LET dicts == {PyDict("LABEL_0", PyFloat(6)), PyDict("LABEL_1", PyFloat(10)),
                  PyDict("LABEL_2", PyFloat(6)), PyDict("LABEL_2", PyFloat(10)),
                  PyDict("POSITIVE", PyFloat(6)), PyDict("LABEL_2", Missing)}
    IN {Raises, Returns(None), Returns(PyList(<<PyDict("POSITIVE", PyFloat(8))>>))}
           \cup {Returns(PyList(<<PyList(entries)>>)) :
                    entries \in SeqsUpTo(dicts, MaxEntries)}

\* What the encoder does: it raises, returns None, returns an array of 3
\* components, or returns an array of dim components.
EncoderOutcomes ==
    {Raises, Returns(None),
     Returns(NdArray(<<Component(1, 10), Component(2, 10), Component(3, 10)>>)),
     Returns(NdArray([i \in 1..dim |-> Component(1, 10)] \o <<>>))}

\* The lines printed by the latest call, and whether the call before it
\* printed a warning
NoOutput == [stdout |-> <<>>, warned_before |-> FALSE]

InitProcessor ==
    /\ calls = <<>>
    /\ response = NoResponse
    /\ trace = NoOutput
    /\ \E use_real_models \in BOOLEAN, raising \in Range(LoadSteps) \cup {"none"} :
           /\ ~use_real_models => raising = "none"
           /\ processor = AIInsightsProcessor(use_real_models, raising)
    /\ hash_seed \in {0, MaxSeed}
    /\ tasks = <<>>
    /\ args = NoArgs
    /\ result = NotCalled

\* The state after a method call with the arguments
AfterCall(called, outcome) ==
    /\ args' = called
    /\ result' = outcome.ret
    /\ processor' = outcome.self
    /\ trace' = [stdout |-> outcome.stdout, warned_before |-> trace.stdout # <<>>]
    /\ UNCHANGED <<calls, response, hash_seed, tasks>>

CalculateSentiment ==
    /\ result = NotCalled
    /\ \E text \in ProcessorTexts, classified \in ClassifierOutcomes :
           AfterCall([fn |-> "calculate_sentiment", text |-> text,
                      classified |-> classified],
                     calculate_sentiment(processor, text, classified))

GenerateEmbedding ==
    /\ result = NotCalled
    /\ \E text \in ProcessorTexts, encoded \in EncoderOutcomes :
           AfterCall([fn |-> "generate_embedding", text |-> text, encoded |-> encoded],
                     generate_embedding(processor, text, encoded, hash_seed))

ProcessCallInsights ==
    /\ result = NotCalled
    /\ \E lines \in ProcessorTranscripts, classified \in ClassifierOutcomes,
          encoded \in EncoderOutcomes :
           LET call_record == [transcript |-> WriteTranscript(lines)]
           IN AfterCall([fn |-> "process_call_insights", lines |-> lines,
                         call_record |-> call_record, classified |-> classified,
                         encoded |-> encoded],
                        process_call_insights(processor, call_record, classified,
                                              encoded, hash_seed))

\* The caller has the value, and may call again.
TakeResult ==
    /\ result # NotCalled
    /\ args' = NoArgs
    /\ result' = NotCalled
    /\ UNCHANGED <<calls, response, trace, insights, tasks>>

NextProcessor ==
    \/ CalculateSentiment
    \/ GenerateEmbedding
    \/ ProcessCallInsights
    \/ TakeResult

SpecProcessor == InitProcessor /\ [][NextProcessor]_vars

----------------------------------------------------------------------------
(* Claims about generate_coaching_nudges, under SpecNudges *)

Called == result # NotCalled
Sentiment == args.target_call.customer_sentiment_score
TalkRatio == args.target_call.agent_talk_ratio
Returned(nudge) == result.py = "list" /\ nudge \in Range(result.items)
DefaultPool == Range(default_nudges)

\* C1: for every sentiment (absent or in [-1,1]) and every talk ratio (absent
\* or in [0,1]), generate_coaching_nudges returns a list of exactly 3 strings.
C1_ExactlyThree ==
    Called =>
        /\ result.py = "list"
        /\ Len(result.items) = 3
        /\ \A i \in 1..Len(result.items) :
               result.items[i] \in STRING

\* C1 witness: both values absent, and the function has returned.
C1_Witness ==
    /\ Called
    /\ Sentiment = None
    /\ TalkRatio = None
    /\ result.py = "list"

\* C2: for every present talk ratio r, the active-listening nudge is returned
\* iff r > 0.7 and the proactive-questioning nudge iff r < 0.3 (r = 0.0
\* included); an absent talk ratio yields neither.
C2_TalkRatioRules ==
    Called =>
        /\ TalkRatio.py = "float" =>
              /\ Returned(ActiveListeningNudge) <=> TalkRatio.val > TalkHigh
              /\ Returned(ProactiveNudge) <=> TalkRatio.val < TalkLow
        /\ TalkRatio = None =>
              /\ ~Returned(ActiveListeningNudge)
              /\ ~Returned(ProactiveNudge)

\* C3: for every present sentiment s, the empathy nudge is returned iff s < 0
\* and the positive-reinforcement nudge iff s > 0.5, never both; an absent
\* sentiment and s = 0.0 yield neither, and a list is returned (no error).
C3_SentimentRules ==
    Called =>
        /\ result.py = "list"
        /\ Sentiment.py = "float" =>
              /\ Returned(EmpathyNudge) <=> Sentiment.val < 0
              /\ Returned(PositiveNudge) <=> Sentiment.val > SentimentHigh
        /\ ~(Returned(EmpathyNudge) /\ Returned(PositiveNudge))
        /\ (Sentiment = None \/ Sentiment = PyFloat(0)) =>
              /\ ~Returned(EmpathyNudge)
              /\ ~Returned(PositiveNudge)

\* C3 witness: a negative sentiment, answered with the empathy nudge.
C3_Witness ==
    /\ Called
    /\ Sentiment.py = "float"
    /\ Sentiment.val < 0
    /\ Returned(EmpathyNudge)

\* C4: the returned list is the rule-triggered nudges (sentiment nudge before
\* talk-ratio nudge), then 3 minus that many nudges of the pool of 5 defaults,
\* drawn without replacement; no default precedes a rule-triggered nudge.
C4_RulesThenDefaults ==
    Called =>
        \E k \in 0..2 :
            /\ Len(result.items) = 3
            /\ \A i \in 1..k :
                   result.items[i] \in {EmpathyNudge, PositiveNudge,
                                        ActiveListeningNudge, ProactiveNudge}
            /\ \A i, j \in 1..k :
                   (i < j /\ result.items[j] \in {EmpathyNudge, PositiveNudge})
                       => result.items[i] \notin {ActiveListeningNudge, ProactiveNudge}
            /\ k = Len(SentimentNudges(Sentiment)) + Len(TalkRatioNudges(TalkRatio))
            /\ \A i \in (k + 1)..3 : result.items[i] \in DefaultPool
            /\ \A i, j \in (k + 1)..3 : i # j => result.items[i] # result.items[j]

\* C4 witness: one rule fired, and two defaults follow its nudge.
C4_Witness ==
    /\ Called
    /\ result.items[1] = ActiveListeningNudge
    /\ result.items[2] \in DefaultPool
    /\ result.items[3] \in DefaultPool

----------------------------------------------------------------------------
(* Claims about cosine_similarity, under SpecCosine *)

AllZero(v) == \A i \in 1..Len(v.items) : v.items[i] = 0

\* C10: cosine_similarity(a, b) returns 0.0, and raises nothing, whenever an
\* argument is None or empty, the lengths differ, or a vector is all zeros.
C10_DegenerateIsZero ==
    (/\ Called
     /\ \/ args.a = None
        \/ args.b = None
        \/ args.a.items = <<>>
        \/ args.b.items = <<>>
        \/ Len(args.a.items) # Len(args.b.items)
        \/ AllZero(args.a)
        \/ AllZero(args.b))
    => result = ZeroSimilarity

\* C10 witness: a zero vector against a nonzero one of its length.
C10_Witness ==
    /\ Called
    /\ args.a # None
    /\ args.b # None
    /\ Len(args.a.items) = Len(args.b.items)
    /\ Len(args.a.items) > 0
    /\ AllZero(args.a)
    /\ ~AllZero(args.b)
    /\ result = ZeroSimilarity

----------------------------------------------------------------------------
(* Claims about get_call_recommendations, under Spec and SpecTopK *)

Replied == response # NoResponse
Ranked == Replied /\ response.status = 200
\* The row the request named, when it is stored
TargetStored == Replied /\ response.call_id \in 1..Len(calls)
TargetRow == calls[response.call_id]
ReturnedIds == {response.similar_calls[i].call_id : i \in 1..Len(response.similar_calls)}
Position(id) == CHOOSE i \in 1..Len(response.similar_calls) : response.similar_calls[i].call_id = id

\* A row without a vector: no text, an empty text, a text that is no JSON, or
\* the text of the empty list.
Absent(row) ==
    \/ row.embedding_json = None
    \/ row.embedding_json = PyStr(<<>>)
    \/ row.embedding_json = InvalidJson
    \/ row.embedding_json = PyStr(<<LBracket, RBracket>>)

\* C5, as claimed: similar_calls is sorted strictly descending by
\* similarity_score.
C5_StrictlyDescending ==
    Ranked =>
        \A i \in 1..(Len(response.similar_calls) - 1) :
            SimLess(response.similar_calls[i + 1].similarity_score,
                    response.similar_calls[i].similarity_score)

\* C5, amended: similar_calls is sorted descending by similarity_score, no
\* entry having a smaller score than the entry after it; equal scores occur.
C5_Descending ==
    Ranked =>
        \A i \in 1..(Len(response.similar_calls) - 1) :
            ~SimLess(response.similar_calls[i].similarity_score,
                     response.similar_calls[i + 1].similarity_score)

\* C5 witness: two candidates returned, with different scores.
C5_Witness ==
    /\ Ranked
    /\ Len(response.similar_calls) = 2
    /\ SimLess(response.similar_calls[2].similarity_score,
               response.similar_calls[1].similarity_score)

\* C6: a candidate without a vector (None, a text that does not parse, or
\* empty) is skipped: it is not scored and is not in similar_calls.
C6_AbsentSkipped ==
    Replied =>
        \A i \in 1..Len(calls) :
            Absent(calls[i]) =>
                /\ calls[i].call_id \notin Range(trace.scored)
                /\ Ranked => calls[i].call_id \notin ReturnedIds

\* C6 witness: a candidate whose text does not parse is left out while the
\* only scored candidate, of negative similarity, is returned.
C6_Witness ==
    /\ Ranked
    /\ Len(response.similar_calls) = 1
    /\ SimLess(response.similar_calls[1].similarity_score, ZeroSimilarity)
    /\ \E i \in 1..Len(calls) :
           /\ i # response.call_id
           /\ calls[i].embedding_json = InvalidJson

\* The similarity of a stored row to the target of the request
SimilarityToTarget(row) == cosine_similarity(embedding(TargetRow), embedding(row))
\* The rows other than the target that have a vector
IsCandidate(i) == i # response.call_id /\ ~Absent(calls[i])

\* C7: two scored candidates of equal similarity appear in the order the
\* store returned them, and when the top-5 cut falls between them the earlier
\* one is kept.
C7_TiesKeepInputOrder ==
    (Ranked /\ ~Absent(TargetRow)) =>
        LET similarity == [i \in 1..Len(calls) |->
                              IF IsCandidate(i) THEN SimilarityToTarget(calls[i])
                              ELSE None] \o <<>>
            returned == ReturnedIds
        IN \A p, q \in 1..Len(calls) :
               (/\ p < q
                /\ IsCandidate(p)
                /\ IsCandidate(q)
                /\ similarity[p] = similarity[q]
                /\ calls[q].call_id \in returned)
               => /\ calls[p].call_id \in returned
                  /\ Position(calls[p].call_id) < Position(calls[q].call_id)

\* C7 witness: the cut falls between two equal candidates: five are returned,
\* and a candidate left out has the similarity of the fifth.
C7_Witness ==
    /\ Ranked
    /\ Len(response.similar_calls) = TopK
    /\ \E q \in 1..Len(calls) :
           /\ IsCandidate(q)
           /\ calls[q].call_id \notin ReturnedIds
           /\ SimilarityToTarget(calls[q]) = response.similar_calls[TopK].similarity_score

\* C8: if the target is stored without a vector, similar_calls is empty and
\* the handler returns before it fetches or scores a candidate.
C8_NoEmbeddingReturnsEarly ==
    (TargetStored /\ Absent(TargetRow)) =>
        /\ response.status = 200
        /\ response.similar_calls = <<>>
        /\ trace.queries = 1
        /\ trace.scored = <<>>

\* C8 witness: the target has no vector while another row has one.
C8_Witness ==
    /\ TargetStored
    /\ Absent(TargetRow)
    /\ response.status = 200
    /\ \E i \in 1..Len(calls) : IsCandidate(i)

\* C9: if the target is stored without a vector, the reply still carries
\* exactly 3 coaching nudges.
C9_NudgesWithoutEmbedding ==
    (TargetStored /\ Absent(TargetRow)) =>
        /\ response.status = 200
        /\ Len(response.coaching_nudges) = 3

----------------------------------------------------------------------------
(* Claims about the transcript parser and the talk ratio, under SpecTranscript *)

\* The lines of the transcript that were written with the label
LinesOf(label) == SelectSeq(args.lines, LAMBDA l : l.label = label)

\* The filler entries of two words
FillerPhrases == {<<"you", "know">>, <<"i", "mean">>}

\* Word i of the words is part of an occurrence of a two-word filler.
InFillerPhrase(words, i) ==
    \/ i < Len(words) /\ <<words[i], words[i + 1]>> \in FillerPhrases
    \/ i > 1 /\ <<words[i - 1], words[i]>> \in FillerPhrases

\* The words of a body that are no filler and part of no two-word filler:
\* what the body counts for when every entry of the filler set is removed.
WordsOutsideFillers(body) ==
    LET words == findall_words(lower(body))
    IN Cardinality({i \in 1..Len(words) :
           words[i] \notin filler_words /\ ~InFillerPhrase(words, i)})

\* The words a speaker has left once every filler entry is removed
CountedWords(label) ==
    LET spoken == LinesOf(label)
    IN Sum([i \in 1..Len(spoken) |-> WordsOutsideFillers(spoken[i].body)] \o <<>>)

\* C12: the talk ratio is 0.5 when neither speaker has a counted word (empty
\* transcript, no labelled line, fillers only), otherwise agent words over
\* all words; it lies in [0, 1], is 0 only when the agent has no counted
\* word and 1 only when the customer has none.
C12_TalkRatioValue ==
    (Called /\ args.fn = "calculate_talk_ratio") =>
        LET agent_count == CountedWords(AgentLabel)
            customer_count == CountedWords(CustomerLabel)
        IN /\ result.py = "float"
           /\ agent_count + customer_count = 0 => result = Fraction(1, 2)
           /\ agent_count + customer_count > 0 =>
                  result = Fraction(agent_count, agent_count + customer_count)
           /\ 0 <= result.num /\ result.num <= result.den
           /\ result.num = 0 => agent_count = 0
           /\ result.num = result.den => customer_count = 0

\* C13: clean_text removes every entry of the filler set, the two-word
\* entries 'you know' and 'i mean' included: what is left of a text is its
\* words outside every occurrence of an entry.
C13_FillersCountZero ==
    (Called /\ args.fn = "clean_text") =>
        Len(result.items) = WordsOutsideFillers(args.text.chars)

\* The space-join of what the lines with the label say, in transcript order
SpokenUnder(label) ==
    LET spoken == LinesOf(label)
    IN PyStr(join(<<Space>>, [i \in 1..Len(spoken) |-> spoken[i].body] \o <<>>))

\* C14: every line goes to at most one speaker: an 'Agent:' line to the agent
\* text only, a 'Customer:' line to the customer text only, any other line to
\* neither; each text is the space-join of the speaker's remainders in
\* transcript order, and without labelled lines both are empty.
C14_LinesToOneSpeaker ==
    (Called /\ args.fn = "extract_speaker_text") =>
        result = PyTuple(<<SpokenUnder(AgentLabel), SpokenUnder(CustomerLabel)>>)

\* C14 witness: a padded 'Agent:' line that says something and a line with
\* the label in lower case: the agent text is what the first line says.
C14_Witness ==
    /\ Called
    /\ args.fn = "extract_speaker_text"
    /\ Len(args.lines) = 2
    /\ args.lines[1].padded
    /\ args.lines[1].label = AgentLabel
    /\ args.lines[1].body # <<>>
    /\ args.lines[2].label = <<Word("agent"), Colon>>
    /\ args.lines[2].body # <<>>
    /\ result = PyTuple(<<PyStr(args.lines[1].body), PyStr(<<>>)>>)

----------------------------------------------------------------------------
(* Claims about the heuristic sentiment, under SpecSentiment *)

\* How many of the items the text was written from are in the set
ItemsIn(S) == Cardinality({i \in 1..Len(args.items) : args.items[i] \in S})

\* P, N and U of the text in tenths: positive matches + 0.2 per '!',
\* negative matches + 0.1 per '?', neutral matches
PositiveTenths == 10 * ItemsIn({Word("good"), Word("Good")}) + 2 * ItemsIn({Exclamation})
NegativeTenths == 10 * ItemsIn({Word("bad")}) + ItemsIn({Question})
NeutralTenths == 10 * ItemsIn({Word("okay")})

\* x as a float is at least -1.0 and at most 1.0
InUnitRange(x) == x.py = "float" /\ -x.den <= x.num /\ x.num <= x.den

\* C16: calculate_sentiment_fallback returns 0.0 for an empty or blank text
\* and when P + N + U = 0, otherwise (P - N) / (P + N + U) clamped to [-1, 1];
\* so the result is positive iff P > N and negative iff P < N.
C16_FallbackFormula ==
    (Called /\ args.fn = "calculate_sentiment_fallback") =>
        LET total == PositiveTenths + NegativeTenths + NeutralTenths
        IN /\ InUnitRange(result)
           /\ args.items = <<>> => result = Fraction(0, 1)
           /\ total = 0 => result = Fraction(0, 1)
           /\ total > 0 =>
                  result = clamp(Fraction(PositiveTenths - NegativeTenths, total))
           /\ result.num > 0 <=> PositiveTenths > NegativeTenths
           /\ result.num < 0 <=> PositiveTenths < NegativeTenths

\* C16 witness: a text where two question marks outweigh nothing but a
\* neutral word: the result is -0.2 / 1.2 = -1/6.
C16_Witness ==
    /\ Called
    /\ args.fn = "calculate_sentiment_fallback"
    /\ PositiveTenths = 0
    /\ NegativeTenths = 2
    /\ NeutralTenths = 10
    /\ result = Fraction(-1, 6)

----------------------------------------------------------------------------
(* Claims about the processor's two strategies, under SpecProcessor *)

\* The call scored a text, the text it scored and the score it returned
SentimentCall == Called /\ args.fn \in {"calculate_sentiment", "process_call_insights"}
ScoredText ==
    IF args.fn = "calculate_sentiment" THEN args.text ELSE SpokenUnder(CustomerLabel)
ScoreReturned ==
    IF args.fn = "calculate_sentiment" THEN result ELSE result.customer_sentiment_score

\* The call embedded a text, the text it embedded and the vector it returned
EmbeddingCall == Called /\ args.fn \in {"generate_embedding", "process_call_insights"}
EmbeddedText ==
    IF args.fn = "generate_embedding" THEN args.text ELSE args.call_record.transcript
VectorReturned ==
    IF args.fn = "generate_embedding" THEN result ELSE result.embedding

\* The classifier returned what the code reads: one list of dicts, each with
\* a label of sentiment_map and a confidence.
Classified ==
    /\ args.classified.kind = "returns"
    /\ args.classified.value.py = "list"
    /\ Len(args.classified.value.items) = 1
    /\ args.classified.value.items[1].py = "list"
    /\ \A entry \in Range(args.classified.value.items[1].items) :
           InSentimentMap(entry.label) /\ entry.score # Missing

\* The sum of the confidences the classifier returned, each with the sign
\* of its label, in tenths
SignedConfidence ==
    LET entries == args.classified.value.items[1].items
    IN Sum([i \in 1..Len(entries) |->
               sentiment_map(entries[i].label) * entries[i].score.val] \o <<>>)

\* The encoder returned an array.
Encoded == args.encoded.kind = "returns" /\ args.encoded.value.py = "ndarray"

\* C15: calculate_sentiment returns a value in [-1, 1] for every text under
\* both strategies: the heuristic one, and the model-backed one whatever the
\* confidences (sums above 1 included) and however the classifier fails.
C15_SentimentInRange == SentimentCall => InUnitRange(ScoreReturned)

\* C15 witness: the model-backed strategy, with confidences for the positive
\* label that sum to 1.6: the score is 1.0.
C15_Witness ==
    /\ SentimentCall
    /\ processor.use_real_models
    /\ strip(ScoredText.chars) # <<>>
    /\ Classified
    /\ SignedConfidence = 16
    /\ ScoreReturned = Fraction(1, 1)

\* C17: with the model-backed strategy, when the classifier or the encoder
\* fails in any way (it raises, or what it returns is malformed), the call
\* raises nothing and returns what the heuristic strategy returns for the
\* same text.
C17_FailureGivesHeuristic ==
    /\ (SentimentCall /\ processor.use_real_models /\ ~Classified) =>
           ScoreReturned = calculate_sentiment_fallback(ScoredText)
    /\ (EmbeddingCall /\ processor.use_real_models /\ ~Encoded) =>
           VectorReturned = generate_embedding_fallback(EmbeddedText, dim, hash_seed)

\* C18: the strategy is fixed at construction: no call changes
\* use_real_models; and the call after a model-backed call that failed and
\* fell back delegates to the model again: when the model succeeds it
\* returns the model's result.
C18_StrategyFixed ==
    /\ [][processor'.use_real_models = processor.use_real_models]_vars
    /\ [](/\ (/\ SentimentCall
              /\ processor.use_real_models
              /\ trace.warned_before
              /\ strip(ScoredText.chars) # <<>>
              /\ Classified) =>
                 ScoreReturned = clamp(Fraction(SignedConfidence, 10))
          /\ (/\ EmbeddingCall
              /\ processor.use_real_models
              /\ trace.warned_before
              /\ Encoded) =>
                 VectorReturned = PyList(args.encoded.value.items))

\* C18 witness: the call before fell back, and this call returns the
\* classifier's -0.6 for a text that the heuristic scores 1.0.
C18_Witness ==
    /\ args.fn = "calculate_sentiment"
    /\ processor.use_real_models
    /\ trace.warned_before
    /\ trace.stdout = <<>>
    /\ args.text = WriteText(<<Word("Good")>>)
    /\ Classified
    /\ SignedConfidence = -6
    /\ result = Fraction(-3, 5)

\* The vector is a list of exactly dim components.
HasDimComponents(vector) == vector.py = "list" /\ Len(vector.items) = dim

\* C19: generate_embedding returns a vector of exactly 384 components for
\* every text under both strategies, also when the encoder succeeds and
\* returns a vector of another length.
C19_Always384 == EmbeddingCall => HasDimComponents(VectorReturned)

\* C19 as the code has it: 384 components under the heuristic strategy and
\* whenever the encoder fails; the encoder's own vector, of whatever length,
\* when the encoder succeeds.
C19_384UnlessEncoded ==
    EmbeddingCall =>
        IF processor.use_real_models /\ Encoded
        THEN VectorReturned = PyList(args.encoded.value.items)
        ELSE HasDimComponents(VectorReturned)

\* C19 witness: the encoder raised under the model-backed strategy, and the
\* text of one word got a vector of 384 components.
C19_Witness ==
    /\ args.fn = "generate_embedding"
    /\ processor.use_real_models
    /\ args.encoded = Raises
    /\ args.text = WriteText(<<Word("Good")>>)
    /\ HasDimComponents(result)
    /\ HasMagnitude(result.items)

----------------------------------------------------------------------------
(* Claims about the heuristic embedding, under SpecEmbedding *)

\* Every component that is not 0.0 was divided by the magnitude.
UnitLength(vector) ==
    \A i \in 1..Len(vector) : vector[i].num # 0 => vector[i].normalized

\* C20: generate_embedding_fallback returns a vector of nonzero magnitude,
\* normalised to unit length, whenever the text is not empty, and the
\* all-zero vector exactly when the text is empty; a text of punctuation or
\* spaces only still gets a nonzero vector.
C20_NonzeroIffNonEmpty ==
    (Called /\ args.fn = "generate_embedding_fallback") =>
        /\ args.text.chars # <<>> =>
               HasMagnitude(result.items) /\ UnitLength(result.items)
        /\ ~HasMagnitude(result.items) <=> args.text.chars = <<>>

\* C20 as the code has it: the vector has a nonzero magnitude, and is
\* normalised to unit length, exactly when the text has a word; a text
\* without words (empty, spaces, punctuation) gets the all-zero vector.
C20_NonzeroIffWords ==
    (Called /\ args.fn = "generate_embedding_fallback") =>
        LET has_word == \E i \in 1..Len(args.text.chars) : IsWord(args.text.chars[i])
        IN /\ Len(result.items) = dim
           /\ has_word => HasMagnitude(result.items) /\ UnitLength(result.items)
           /\ ~has_word => result.items = zeros(dim)

\* C20 witness: every hashed string has the same hash, and a text of a word
\* said twice gets a vector with one component that is not 0.0.
C20_Witness ==
    /\ Called
    /\ args.fn = "generate_embedding_fallback"
    /\ hash_seed = 0
    /\ args.items = <<Word("hello"), Word("Hello")>>
    /\ Cardinality({i \in 1..dim : result.items[i].num # 0}) = 1
    /\ UnitLength(result.items)

----------------------------------------------------------------------------
(* More claims about get_call_recommendations, under Spec and SpecTopK *)

\* The number of components of the vector a row holds
VectorLength(row) == Len(embedding(row).items)

\* C25: only candidates whose vector is present and has the length of the
\* target's vector are scored and can be in similar_calls; a candidate whose
\* vector has another length is never in the result.
C25_OnlyEqualLength ==
    (Ranked /\ ~Absent(TargetRow)) =>
        \A i \in 1..Len(calls) :
            (IsCandidate(i) /\ VectorLength(calls[i]) # VectorLength(TargetRow))
                => /\ calls[i].call_id \notin Range(trace.scored)
                   /\ calls[i].call_id \notin ReturnedIds

\* C25, amended: the candidates scored are exactly those whose vector is
\* present, whatever its length, and only they are returned; a returned
\* candidate whose vector has another length than the target's has the
\* similarity 0.0.
C25_OtherLengthScoresZero ==
    (Ranked /\ ~Absent(TargetRow)) =>
        /\ Range(trace.scored) = {calls[i].call_id : i \in {j \in 1..Len(calls) : IsCandidate(j)}}
        /\ ReturnedIds \subseteq Range(trace.scored)
        /\ \A i \in 1..Len(calls) :
               (/\ IsCandidate(i)
                /\ VectorLength(calls[i]) # VectorLength(TargetRow)
                /\ calls[i].call_id \in ReturnedIds)
               => response.similar_calls[Position(calls[i].call_id)].similarity_score
                      = ZeroSimilarity

\* C25 witness: a candidate of one component is returned for a target of two
\* components, after a candidate of the target's length that scores higher.
C25_Witness ==
    /\ Ranked
    /\ ~Absent(TargetRow)
    /\ VectorLength(TargetRow) = 2
    /\ Len(response.similar_calls) = 2
    /\ SimLess(ZeroSimilarity, response.similar_calls[1].similarity_score)
    /\ response.similar_calls[2].similarity_score = ZeroSimilarity
    /\ VectorLength(calls[response.similar_calls[2].call_id]) = 1

\* The number of rows other than the target that have a vector
CandidateCount == Cardinality({i \in 1..Len(calls) : IsCandidate(i)})

\* What C27 says of a reply: min(5, m) entries, the target not among them, and
\* no candidate left out that is strictly more similar than one returned.
TopOfCandidates ==
    LET similarity == [i \in 1..Len(calls) |->
                          IF IsCandidate(i) THEN SimilarityToTarget(calls[i])
                          ELSE None] \o <<>>
        returned == ReturnedIds
    IN /\ Len(response.similar_calls) = Min(TopK, CandidateCount)
       /\ response.call_id \notin returned
       /\ \A p, q \in 1..Len(calls) :
              (/\ IsCandidate(p)
               /\ IsCandidate(q)
               /\ calls[p].call_id \in returned
               /\ calls[q].call_id \notin returned)
              => ~SimLess(similarity[p], similarity[q])

\* C27, as claimed: in every reply of status 200, similar_calls has exactly
\* min(5, m) entries, m the number of calls other than the target that have a
\* vector; the target is not among them; no scored candidate left out is
\* strictly more similar than one included.
C27_TopFiveOfCandidates ==
    (Ranked /\ TargetStored) => TopOfCandidates

\* C27, amended: the same, when the target itself has a vector (without one
\* similar_calls is empty whatever m is).
C27_TopFiveWhenTargetHasVector ==
    (Ranked /\ ~Absent(TargetRow)) => TopOfCandidates

\* C27 witness: more than five candidates, five returned, and one left out
\* that is strictly less similar than the fifth.
C27_Witness ==
    /\ Ranked
    /\ ~Absent(TargetRow)
    /\ CandidateCount > TopK
    /\ Len(response.similar_calls) = TopK
    /\ \E q \in 1..Len(calls) :
           /\ IsCandidate(q)
           /\ calls[q].call_id \notin ReturnedIds
           /\ SimLess(SimilarityToTarget(calls[q]),
                      response.similar_calls[TopK].similarity_score)

----------------------------------------------------------------------------
(* More claims about generate_coaching_nudges, under SpecNudges *)

RuleNudgeSet == {EmpathyNudge, PositiveNudge, ActiveListeningNudge, ProactiveNudge}

\* C28: the 3 strings generate_coaching_nudges returns are pairwise distinct
\* for every input: no rule nudge equals a default and no default is drawn
\* twice.
C28_PairwiseDistinct ==
    Called =>
        /\ Len(result.items) = NudgeCount
        /\ \A i, j \in 1..Len(result.items) :
               i # j => result.items[i] # result.items[j]
        /\ RuleNudgeSet \cap DefaultPool = {}

\* C28 witness: one rule nudge and two defaults are returned.
C28_Witness ==
    /\ Called
    /\ Cardinality(Range(result.items) \cap RuleNudgeSet) = 1
    /\ Cardinality(Range(result.items) \cap DefaultPool) = 2

----------------------------------------------------------------------------
(* Claims about CallRecord.embedding, under Spec *)

\* The step is call.embedding = value on the row stored last.
IsSetEmbedding(value) ==
    /\ calls # <<>>
    /\ calls' = [calls EXCEPT ![Len(calls)] = set_embedding(@, value)]

\* What reading gives after call.embedding = value
ReadsBack(row, value) ==
    IF value = None
    THEN row.embedding_json = None /\ embedding(row) = None
    ELSE /\ embedding(row) = value
         /\ row.embedding_json.py = "str"

\* C24: after setting embedding to a list, reading it returns an equal list;
\* after setting it to None, embedding_json and embedding are both None; a
\* row whose embedding_json is no valid JSON reads as None, nothing raised;
\* and this holds at every step of every sequence of sets.
C24_EmbeddingRoundTrips ==
    /\ [][\A value \in Embeddings \cup {None} :
              IsSetEmbedding(value) => ReadsBack(calls'[Len(calls')], value)]_vars
    /\ [](\A i \in 1..Len(calls) :
              calls[i].embedding_json = InvalidJson => embedding(calls[i]) = None)

\* C24 witness: one row holds a text that is no JSON, one was set to the
\* empty list, and one to a list of two numbers one of which is negative.
C24_Witness ==
    \E i, j, k \in 1..Len(calls) :
        /\ calls[i].embedding_json = InvalidJson
        /\ calls[j].embedding_json = json_dumps(PyList(<<>>))
        /\ embedding(calls[j]) = PyList(<<>>)
        /\ embedding(calls[k]) = PyList(<<-1, 0>>)

----------------------------------------------------------------------------
(* Claims about the construction of the processor, under SpecProcessor *)

\* C22: after construction, use_real_models is true iff real models were
\* asked for and both the encoder and the classifier loaded; a failure of
\* any loading step is caught: the processor is built, in heuristic mode, and
\* its calls return what the heuristic strategy returns; and no later call
\* starts a load or sets a model.
C22_RealIffBothLoaded ==
    /\ [](/\ processor.built
          /\ processor.use_real_models <=>
                 /\ processor.init.use_real_models
                 /\ processor.embedding_model
                 /\ processor.sentiment_pipeline
          /\ (processor.init.use_real_models /\ processor.init.raising # "none") =>
                 /\ ~processor.use_real_models
                 /\ SentimentCall =>
                        ScoreReturned = calculate_sentiment_fallback(ScoredText)
                 /\ EmbeddingCall =>
                        VectorReturned =
                            generate_embedding_fallback(EmbeddedText, dim, hash_seed))
    /\ [][/\ processor'.loads = processor.loads
          /\ processor'.embedding_model = processor.embedding_model
          /\ processor'.sentiment_pipeline = processor.sentiment_pipeline]_vars

\* C22 witness: real models were asked for, the encoder loaded and the
\* classifier did not; a later call, whose classifier would have answered,
\* returned the heuristic score of a positive text.
C22_Witness ==
    /\ processor.init.use_real_models
    /\ processor.embedding_model
    /\ ~processor.sentiment_pipeline
    /\ processor.loads = 2
    /\ args.fn = "calculate_sentiment"
    /\ Classified
    /\ args.text = WriteText(<<Word("Good")>>)
    /\ result = calculate_sentiment_fallback(args.text)
    /\ trace.stdout = <<>>

----------------------------------------------------------------------------
(* websocket_general, app/main.py *)

\* A short str, and dict.get(key, default) on a member read from the text
Str(w) == PyStr(<<Word(w)>>)
Get(member, default) == IF member = Missing THEN default ELSE member

\* What send_text sends: the "type" and the "status" of the message ("" when
\* it has none)
Sent(type, status) == [type |-> type, status |-> status]

\* asyncio.wait_for timed out
TimedOut == Raised("TimeoutError")

\* The mutant of StreamingAfter: every message but stop_streaming starts the
\* streaming.
StreamingAfterAnyStarts(streaming, type) ==
    IF type = Str("stop_streaming") THEN FALSE ELSE TRUE

\* streaming, after the if/elif on data.get("type")
StreamingAfter(streaming, type) ==
    IF type = Str("start_streaming") THEN TRUE
    ELSE IF type = Str("stop_streaming") THEN FALSE
    ELSE streaming

\* The reply to a message of the type: what is sent, or what is raised when
\* "data" has no get
Reply(type, data) ==
    IF type = Str("start_streaming")
    THEN [sent |-> <<Sent("streaming_status", "streaming")>>, raised |-> "none"]
    ELSE IF type = Str("stop_streaming")
    THEN [sent |-> <<Sent("streaming_status", "stopped")>>, raised |-> "none"]
    ELSE IF type = Str("custom_message")
    THEN IF Get(data, [py |-> "dict"]).py = "dict"
         THEN [sent |-> <<Sent("echo", "")>>, raised |-> "none"]
         ELSE [sent |-> <<>>, raised |-> "AttributeError"]
    ELSE [sent |-> <<>>, raised |-> "none"]

\* One pass of `while True`: the message (or the timeout) is handled, and an
\* analytics_update follows `if streaming:`. raised is the exception that
\* leaves the loop, "none" when the loop goes on.
websocket_iteration(streaming, received) ==
    LET update(flag) == IF flag THEN <<Sent("analytics_update", "")>> ELSE <<>>
    IN IF received = TimedOut
       THEN [streaming |-> streaming, sent |-> update(streaming), raised |-> "none"]
       ELSE LET data == json_loads(received)
            IN IF data.py = "raise"
               THEN [streaming |-> streaming,
                     sent |-> <<Sent("error", "")>> \o update(streaming),
                     raised |-> "none"]
               ELSE IF data.py # "dict"
               THEN [streaming |-> streaming, sent |-> <<>>, raised |-> "AttributeError"]
               ELSE LET type == Get(data.type, None)
                        flag == StreamingAfter(streaming, type)
                        reply == Reply(type, data.data)
                    IN IF reply.raised # "none"
                       THEN [streaming |-> flag, sent |-> reply.sent,
                             raised |-> reply.raised]
                       ELSE [streaming |-> flag, sent |-> reply.sent \o update(flag),
                             raised |-> "none"]

\* The most passes of the loop on one connection.
MaxIterations == 4

\* The texts a client sends: objects of each handled type, of another type
\* and of no type, a custom_message whose data is a str, an array, and two
\* texts that are no JSON.
SocketMessages ==
    {PyStr(<<Object(Str(t), Missing)>>) :
        t \in {"start_streaming", "stop_streaming", "custom_message", "ping"}}
    \cup {PyStr(<<Object(Missing, Missing)>>),
          PyStr(<<Object(Str("custom_message"), Str("hello"))>>),
          json_dumps(PyList(<<1>>)), InvalidJson, PyStr(<<>>)}

\* trace holds the connection: what each step received and sent.
InitSocket ==
    /\ calls = <<>>
    /\ response = NoResponse
    /\ trace = <<>>
    /\ args = NoArgs
    /\ result = NotCalled
    /\ processor = NoProcessor
    /\ hash_seed = 0
    /\ tasks = <<>>

\* A client connects: accept, streaming = False, the welcome message, and in
\* testing mode the close and the return.
Accept ==
    /\ tasks = <<>>
    /\ \E testing \in BOOLEAN :
           tasks' = <<[fn |-> "websocket_general",
                       testing |-> testing,
                       streaming |-> FALSE,
                       at |-> IF testing THEN "returned" ELSE "loop",
                       closed |-> testing]>>
    /\ trace' = <<[received |-> None, sent |-> <<Sent("connection", "connected")>>]>>
    /\ UNCHANGED <<calls, response, args, result, insights>>

\* One pass of the loop, on a text of the client or on the timeout. An
\* exception that is no disconnection is logged and the socket is closed.
LoopIteration ==
    /\ tasks # <<>>
    /\ tasks[1].at = "loop"
    /\ Len(trace) <= MaxIterations
    /\ \E received \in SocketMessages \cup {TimedOut} :
           LET step == websocket_iteration(tasks[1].streaming, received)
           IN /\ tasks' = <<[tasks[1] EXCEPT
                                !.streaming = step.streaming,
                                !.at = IF step.raised = "none" THEN "loop" ELSE "returned",
                                !.closed = step.raised # "none"]>>
              /\ trace' = Append(trace, [received |-> received, sent |-> step.sent])
    /\ UNCHANGED <<calls, response, args, result, insights>>

\* The client goes away: receive_text raises WebSocketDisconnect, which ends
\* the handler.
Disconnect ==
    /\ tasks # <<>>
    /\ tasks[1].at = "loop"
    /\ tasks' = <<[tasks[1] EXCEPT !.at = "returned"]>>
    /\ trace' = Append(trace, [received |-> Raised("WebSocketDisconnect"), sent |-> <<>>])
    /\ UNCHANGED <<calls, response, args, result, insights>>

NextSocket ==
    \/ Accept
    \/ LoopIteration
    \/ Disconnect

SpecSocket == InitSocket /\ [][NextSocket]_vars

----------------------------------------------------------------------------
(* Claims about websocket_general, under SpecSocket *)

\* The connection is served outside testing mode.
Serving == tasks # <<>> /\ ~tasks[1].testing
\* The "type" of what a step received, None when it received no object
TypeReceived(step) ==
    IF step.received.py = "str" /\ json_loads(step.received).py = "dict"
    THEN Get(json_loads(step.received).type, None)
    ELSE None
\* The step received a text that is no JSON.
NoJsonReceived(step) ==
    step.received.py = "str" /\ json_loads(step.received).py = "raise"
UpdateSent(step) == Sent("analytics_update", "") \in Range(step.sent)

\* C30: outside testing mode the streaming flag starts false, becomes true
\* only on a received start_streaming and false only on a stop_streaming; an
\* analytics_update is sent in a pass of the loop only if the flag is true,
\* so every update follows a start_streaming with no stop_streaming since;
\* a text that is no JSON gets an error reply, leaves the flag as it was and
\* the connection open.
C30_StreamingFlag ==
    /\ [](Serving =>
            /\ Len(trace) = 1 => ~tasks[1].streaming
            /\ \A i \in 1..Len(trace) :
                   /\ UpdateSent(trace[i]) =>
                          \E j \in 2..i :
                              /\ TypeReceived(trace[j]) = Str("start_streaming")
                              /\ \A k \in (j + 1)..i :
                                     TypeReceived(trace[k]) # Str("stop_streaming")
                   /\ NoJsonReceived(trace[i]) =>
                          Sent("error", "") \in Range(trace[i].sent))
    /\ [][(Serving /\ tasks' # tasks) =>
            LET step == trace'[Len(trace')]
            IN /\ (~tasks[1].streaming /\ tasks'[1].streaming) =>
                      TypeReceived(step) = Str("start_streaming")
               /\ (tasks[1].streaming /\ ~tasks'[1].streaming) =>
                      TypeReceived(step) = Str("stop_streaming")
               /\ UpdateSent(step) => tasks'[1].streaming
               /\ NoJsonReceived(step) =>
                      /\ tasks'[1].streaming = tasks[1].streaming
                      /\ tasks'[1].at = "loop"
                      /\ ~tasks'[1].closed]_vars

\* C30 witness: a start_streaming, then a text that is no JSON, answered with
\* the error and followed by an update, then a stop_streaming and a timeout
\* with no update; the loop goes on.
C30_Witness ==
    /\ Serving
    /\ Len(trace) = 5
    /\ TypeReceived(trace[2]) = Str("start_streaming")
    /\ trace[3].received = InvalidJson
    /\ trace[3].sent = <<Sent("error", ""), Sent("analytics_update", "")>>
    /\ TypeReceived(trace[4]) = Str("stop_streaming")
    /\ trace[4].sent = <<Sent("streaming_status", "stopped")>>
    /\ trace[5] = [received |-> TimedOut, sent |-> <<>>]
    /\ tasks[1].at = "loop"
    /\ ~tasks[1].streaming

----------------------------------------------------------------------------
(* DataGenerator.generate_call_record, generate_data.py, next to
   process_call_insights *)

\* The signals generate_call_record stores for base_transcript: the talk
\* ratio, the sentiment and the embedding, each computed from the whole
\* transcript; an empty embedding is not stored.
generate_call_record(self, base_transcript, classified, encoded, seed) ==
    LET sentiment == calculate_sentiment(self, base_transcript, classified)
        embedded == generate_embedding(sentiment.self, base_transcript, encoded, seed)
    IN Outcome(embedded.self,
               Insights(calculate_talk_ratio(base_transcript),
                        sentiment.ret,
                        IF truthy(embedded.ret) THEN embedded.ret ELSE None),
               sentiment.stdout \o embedded.stdout)

\* The lines of the transcripts that are ingested: the agent or the customer
\* says a positive or a negative word.
IngestedLines ==
    [padded : {FALSE},
     label : {AgentLabel, CustomerLabel},
     body : {<<Word("good")>>, <<Word("bad")>>}]

\* The lines of a transcript that are the customer's
CustomerLines(lines) == SelectSeq(lines, LAMBDA l : l.label = CustomerLabel)

\* Two transcripts are ingested by a heuristic processor: they have the same
\* Customer: lines and different Agent: lines.
InitIngestion ==
    /\ calls = <<>>
    /\ response = NoResponse
    /\ trace = NoOutput
    /\ processor = AIInsightsProcessor(FALSE, "none")
    /\ hash_seed = MaxSeed
    /\ tasks = <<>>
    /\ \E first, second \in SeqsUpTo(IngestedLines, MaxLines) :
           /\ CustomerLines(first) = CustomerLines(second)
           /\ first # second
           /\ args = [fn |-> "none", lines |-> <<first, second>>]
    /\ result = NotCalled

\* await process_call_insights({'transcript': ...}) for each of the two
IngestByProcessCallInsights ==
    /\ result = NotCalled
    /\ result' = PyTuple([i \in 1..2 |->
                     process_call_insights(
                         processor, [transcript |-> WriteTranscript(args.lines[i])],
                         Raises, Raises, hash_seed).ret] \o <<>>)
    /\ args' = [args EXCEPT !.fn = "process_call_insights"]
    /\ UNCHANGED <<calls, response, trace, insights, tasks>>

\* generate_call_record with each of the two as base_transcript
IngestByGenerateCallRecord ==
    /\ result = NotCalled
    /\ result' = PyTuple([i \in 1..2 |->
                     generate_call_record(
                         processor, WriteTranscript(args.lines[i]),
                         Raises, Raises, hash_seed).ret] \o <<>>)
    /\ args' = [args EXCEPT !.fn = "generate_call_record"]
    /\ UNCHANGED <<calls, response, trace, insights, tasks>>

NextIngestion ==
    \/ IngestByProcessCallInsights
    \/ IngestByGenerateCallRecord

SpecIngestion == InitIngestion /\ [][NextIngestion]_vars

----------------------------------------------------------------------------
(* Claims about the ingestion paths, under SpecIngestion *)

\* C26: the sentiment stored for a call depends on the customer's text only:
\* two transcripts with the same Customer: lines and different Agent: lines
\* get the same sentiment, by process_call_insights and by
\* generate_call_record.
C26_SentimentOfCustomerOnly ==
    (Called /\ CustomerLines(args.lines[1]) = CustomerLines(args.lines[2])) =>
        result.items[1].customer_sentiment_score
            = result.items[2].customer_sentiment_score

----------------------------------------------------------------------------
(* generate_embedding_fallback over the lifetimes of the Python process *)

\* The most transcripts embedded and stored.
MaxStored == 3

\* The transcripts that are embedded: one word, two words, the same two in
\* the other order, and one word said twice.
StoredTexts ==
    {WriteText(<<Word("hello")>>),
     WriteText(<<Word("hello"), Word("world")>>),
     WriteText(<<Word("world"), Word("hello")>>),
     WriteText(<<Word("hello"), Word("Hello")>>)}

\* calls holds the transcripts embedded so far, each with the vector that
\* generate_embedding_fallback returned for it.
InitRestarts ==
    /\ calls = <<>>
    /\ response = NoResponse
    /\ trace = NoTrace
    /\ args = NoArgs
    /\ result = NotCalled
    /\ processor = NoProcessor
    /\ hash_seed \in {0, MaxSeed}
    /\ tasks = <<>>

\* generate_embedding_fallback(text) in the running process; the vector is
\* kept with the transcript.
EmbedTranscript ==
    /\ Len(calls) < MaxStored
    /\ \E text \in StoredTexts :
           calls' = Append(calls,
                           [call_id |-> Len(calls) + 1,
                            transcript |-> text,
                            embedding |-> generate_embedding_fallback(text, dim, hash_seed)])
    /\ UNCHANGED <<response, trace, args, result, processor, hash_seed, tasks>>

\* The process ends and another starts: the hash of a str is salted with a
\* value that is drawn when the interpreter starts.
RestartProcess ==
    /\ hash_seed' \in {0, MaxSeed} \ {hash_seed}
    /\ UNCHANGED <<calls, response, trace, args, result, processor, tasks>>

NextRestarts ==
    \/ EmbedTranscript
    \/ RestartProcess

SpecRestarts == InitRestarts /\ [][NextRestarts]_vars

----------------------------------------------------------------------------
(* Claims about the embeddings of several invocations, under SpecRestarts *)

\* C21: generate_embedding_fallback is deterministic: two invocations on the
\* same text, with any invocations on other texts between them, return the
\* same vector (whose similarity with itself is 1.0).
C21_SameTextSameVector ==
    \A i, j \in 1..Len(calls) :
        calls[i].transcript = calls[j].transcript =>
            calls[i].embedding = calls[j].embedding

\* The sign of a component: that of its sum times those of the logarithms it
\* was multiplied by.
RECURSIVE SignOfLogs(_)
SignOfLogs(logs) ==
    IF logs = <<>> THEN 1
    ELSE (IF Head(logs).num > Head(logs).den THEN 1
          ELSE IF Head(logs).num = Head(logs).den THEN 0 ELSE -1)
         * SignOfLogs(Tail(logs))
Sign(c) == (IF c.num > 0 THEN 1 ELSE IF c.num = 0 THEN 0 ELSE -1) * SignOfLogs(c.logs)

----------------------------------------------------------------------------
(* process_call_insights as coroutines on one processor *)

\* The most invocations in flight on the processor.
MaxTasks == 2

\* What the models do for one invocation: the classifier raises or returns
\* one positive label of confidence 1.0, the encoder raises or returns an
\* array of 3 components.
TaskClassified == {Raises, Returns(PyList(<<PyList(<<PyDict("LABEL_2", PyFloat(10))>>)>>))}
TaskEncoded ==
    {Raises, Returns(NdArray(<<Component(1, 10), Component(2, 10), Component(3, 10)>>))}

\* One processor, heuristic or model-backed, and no invocation yet
InitTasks ==
    /\ calls = <<>>
    /\ response = NoResponse
    /\ trace = NoOutput
    /\ args = NoArgs
    /\ result = NotCalled
    /\ \E use_real_models \in BOOLEAN :
           processor = AIInsightsProcessor(use_real_models, "none")
    /\ hash_seed = MaxSeed
    /\ tasks = <<>>

\* process_call_insights(call_record) runs up to its first await: the
\* customer's text and the talk ratio are computed on the event loop, and
\* calculate_sentiment is handed to the executor.
StartProcessCallInsights ==
    /\ Len(tasks) < MaxTasks
    /\ \E lines \in ProcessorTranscripts \ {<<>>}, classified \in TaskClassified,
          encoded \in TaskEncoded :
           LET transcript == WriteTranscript(lines)
           IN tasks' = Append(tasks,
                  [fn |-> "process_call_insights",
                   at |-> "sentiment",
                   call_record |-> [transcript |-> transcript],
                   classified |-> classified,
                   encoded |-> encoded,
                   customer_text |-> extract_speaker_text(transcript).items[2],
                   agent_talk_ratio |-> calculate_talk_ratio(transcript),
                   customer_sentiment_score |-> NotCalled,
                   embedding |-> NotCalled])
    /\ UNCHANGED <<calls, response, trace, args, result, insights>>

\* A thread of the executor runs calculate_sentiment(customer_text) for an
\* invocation; the coroutine resumes and hands generate_embedding over.
RunSentiment ==
    \E t \in 1..Len(tasks) :
        /\ tasks[t].at = "sentiment"
        /\ LET outcome == calculate_sentiment(processor, tasks[t].customer_text,
                                              tasks[t].classified)
           IN /\ tasks' = [tasks EXCEPT ![t].customer_sentiment_score = outcome.ret,
                                        ![t].at = "embedding"]
              /\ processor' = outcome.self
              /\ trace' = [trace EXCEPT !.stdout = @ \o outcome.stdout]
        /\ UNCHANGED <<calls, response, args, result, hash_seed>>

\* A thread of the executor runs generate_embedding(transcript); the
\* coroutine resumes and returns the dict.
RunEmbedding ==
    \E t \in 1..Len(tasks) :
        /\ tasks[t].at = "embedding"
        /\ LET outcome == generate_embedding(processor, tasks[t].call_record.transcript,
                                             tasks[t].encoded, hash_seed)
           IN /\ tasks' = [tasks EXCEPT ![t].embedding = outcome.ret,
                                        ![t].at = "done"]
              /\ processor' = outcome.self
              /\ trace' = [trace EXCEPT !.stdout = @ \o outcome.stdout]
        /\ UNCHANGED <<calls, response, args, result, hash_seed>>

NextTasks ==
    \/ StartProcessCallInsights
    \/ RunSentiment
    \/ RunEmbedding

SpecTasks == InitTasks /\ [][NextTasks]_vars

----------------------------------------------------------------------------
(* Claims about concurrent invocations, under SpecTasks *)

\* What the invocation returns when it runs alone on the processor as it
\* was built
ReturnedAlone(task) ==
    process_call_insights(
        AIInsightsProcessor(processor.init.use_real_models, processor.init.raising),
        task.call_record, task.classified, task.encoded, hash_seed).ret

\* C23: with any number of invocations of process_call_insights in flight
\* on one processor, in every interleaving of their steps, each returns the
\* talk ratio, the sentiment and the embedding it returns when it runs
\* alone; and no step of an invocation writes the processor that the others
\* read.
C23_SameAsAlone ==
    /\ [](\A t \in 1..Len(tasks) :
              tasks[t].at = "done" =>
                  Insights(tasks[t].agent_talk_ratio,
                           tasks[t].customer_sentiment_score,
                           tasks[t].embedding) = ReturnedAlone(tasks[t]))
    /\ [][processor' = processor]_vars

\* C23 witness: two invocations on different transcripts have returned on a
\* model-backed processor; the classifier and the encoder failed for the
\* first, which fell back twice, and the classifier answered the second.
C23_Witness ==
    /\ Len(tasks) = 2
    /\ processor.use_real_models
    /\ tasks[1].at = "done"
    /\ tasks[2].at = "done"
    /\ tasks[1].call_record # tasks[2].call_record
    /\ tasks[1].encoded = Raises
    /\ tasks[2].classified # Raises
    /\ tasks[2].customer_sentiment_score = Fraction(1, 1)
    /\ trace.stdout = <<SentimentWarning, EmbeddingWarning>>

====
